---- MODULE Spec2Model ----
(***************************************************************************)
(* A model of the MERIDIAN brain core: the persisted link graph            *)
(* (auto_linker.LinkGraph), the auto-linker over the chunk store           *)
(* (auto_linker.AutoLinker) and the sandboxed session                      *)
(* (repl_environment.REPLSession).                                         *)
(*                                                                         *)
(* Python dicts are functions with a finite domain (the keys present),     *)
(* Python lists are sequences, None is the string "None".                  *)
(***************************************************************************)
EXTENDS Integers, Sequences, FiniteSets, TLC

VARIABLES
    forward,      \* LinkGraph._forward of the long-lived graph object
    reverse,      \* LinkGraph._reverse of the long-lived graph object
    index,        \* the index file: whether it exists, and the maps it holds
    last,         \* the last call made by the caller and what it returned
    chunks,       \* the chunk store: id -> the persisted chunk record
    held,         \* the Chunk objects the caller holds: id -> its links and whether it was linked
    clock,        \* the wall clock, in ticks
    state,            \* REPLSession._state
    namespace,        \* REPLSession._namespace, without __builtins__ and __name__
    iteration_count,  \* REPLSession._iteration_count
    total_cost,       \* REPLSession._total_cost, in thousandths of a dollar
    result,           \* REPLSession._result
    complete,         \* REPLSession._complete
    output,           \* REPLSession._output
    stderr,           \* REPLSession._stderr
    hist,             \* what the primitives did since the last reset
    memory,           \* MemoryCache._cache: key -> CacheEntry
    disk,             \* the files of DiskCache._cache_dir: sanitized key -> entry
    has_disk,         \* CacheManager.disk is not None
    removed_keys,     \* the keys this manager deleted or cleared and has not set since
    time,             \* time.time(), in ticks
    lock,             \* MemoryCache._lock: the thread that holds it, or None
    threads,          \* each thread's position in its MemoryCache call and its locals
    docs,             \* the chunks recall searches: id -> conversation, content, confidence
    writes            \* key -> the last CacheManager.set of the key: value, time, ttl, use_disk

graphVars == <<forward, reverse, index>>

linkerVars == <<chunks, held, clock>>

sessionVars ==
    <<state, namespace, iteration_count, total_cost, result, complete, output, stderr, hist>>

cacheVars == <<memory, disk, has_disk, time, removed_keys>>

threadVars == <<lock, threads>>

recallVars == <<docs>>

writeVars == <<writes>>

vars == <<forward, reverse, index, last, chunks, held, clock,
          state, namespace, iteration_count, total_cost, result, complete, output, stderr, hist,
          memory, disk, has_disk, time, removed_keys, lock, threads, docs, writes>>

----------------------------------------------------------------------------
(* Bounds and input domains                                                *)

\* largest max_depth handed to traverse
MaxDepth == 2

\* the ids create_chunk assigns, in this order
ChunkIds == {1, 2, 3}

\* most ticks of the wall clock that pass between two create_chunk calls
MaxGap == 2

\* AutoLinker.temporal_window, in ticks
TemporalWindow == 1

\* conversation ids and tags handed to create_chunk
Convs == {"conv-1", "conv-2"}

\* the tags arguments handed to create_chunk
TagSets == {{}, {"t1"}, {"t1", "t2"}}
\* REPLSession(max_iterations = 2)
max_iterations == 2

\* llm_query calls followed beyond the iteration limit
MaxOvershoot == 1

\* execute calls whose output is captured, per session lifetime
MaxOutput == 2

\* the entries of BLOCKED_MODULES that the modelled code imports, each a
\* dotted name given as the sequence of its components
BLOCKED_MODULES == {<<"os">>, <<"asyncio", "subprocess">>}

\* top-level names that the modelled code binds
Names == {"x", "_t", "FINAL"}

\* those of them that start with an underscore
UnderscoreNames == {"_t"}

\* the answers handed to FINAL
Answers == {"a1", "a2"}

\* what llm_client.complete does on a call: a response with a cost_usd (in
\* thousandths of a dollar), a response without one, an exception, or an
\* AttributeError followed by what the second call of the handler does
Responses ==
    {[kind |-> "cost", cost_usd |-> 2], [kind |-> "cost", cost_usd |-> 3],
     [kind |-> "plain", cost_usd |-> 0], [kind |-> "error", cost_usd |-> 0],
     [kind |-> "retry_cost", cost_usd |-> 2], [kind |-> "retry_error", cost_usd |-> 0]}

\* the top-level statements of the code handed to execute
Stmts ==
    {[op |-> "assign", name |-> "x", value |-> 1], [op |-> "assign", name |-> "x", value |-> 2],
     [op |-> "assign", name |-> "_t", value |-> 1],
     [op |-> "assign", name |-> "FINAL", value |-> 1]}
    \cup {[op |-> "FINAL", answer |-> a] : a \in Answers}
    \cup {[op |-> "llm_query", response |-> r] : r \in Responses}
    \cup {[op |-> "import", module |-> m] : m \in BLOCKED_MODULES}

\* the statements that follow another one in the modelled code
SecondStmts ==
    {[op |-> "assign", name |-> "x", value |-> 2],
     [op |-> "FINAL", answer |-> "a2"],
     [op |-> "llm_query", response |-> [kind |-> "cost", cost_usd |-> 3]],
     [op |-> "llm_query", response |-> [kind |-> "error", cost_usd |-> 0]],
     [op |-> "import", module |-> <<"asyncio", "subprocess">>]}

\* the code handed to execute: empty, one statement, or two
Programs ==
    {<<>>} \cup {<<s>> : s \in Stmts} \cup {<<s, t>> : s \in Stmts, t \in SecondStmts}

\* CacheManager(cache_dir, default_ttl): the default time to live, in ticks
default_ttl == 1

\* the clock does not pass this time
MaxTime == 2

\* the keys handed to the cache, each the sequence of its characters; the
\* first two have the same cache file
CacheKeys == {<<"a">>, <<"a", "/">>, <<"b">>}

\* the values handed to the cache, JSON strings
CacheValues == {"v1", "v2"}

\* the ttl arguments: None, or a number of ticks
TtlArgs == {<<>>, <<default_ttl>>}

\* the manual links asked for: from_id, to_id and link type
ManualLinks ==
    {[from_id |-> 1, to_id |-> 2, link_type |-> "supports"],
     [from_id |-> 1, to_id |-> 3, link_type |-> "supports"],
     [from_id |-> 2, to_id |-> 1, link_type |-> "contradicts"],
     [from_id |-> 1, to_id |-> 2, link_type |-> "related_to"]}

\* the ids of the chunks the store holds for recall
DocIds == {1, 2}

\* the max_results handed to recall
ResultLimits == {0, 1, 2}

\* the contents of the chunks: "ab", "B" and "c"
Contents == {<<"a", "b">>, <<"B">>, <<"c">>}

\* the stored confidence of a chunk, in tenths
Confidences == {5, 9}

\* the queries: "", " ", "A", "b a", "c" and "z"
Queries == {<<>>, <<" ">>, <<"A">>, <<"b", " ", "a">>, <<"c">>, <<"z">>}

\* RecallOperation.QUERY_SYNONYMS: key -> synonyms
QUERY_SYNONYMS == (<<"a">> :> {<<"a">>, <<"c">>})

\* what a call inside the try block of _repl_retrieval may raise
SessionErrors == {"SandboxViolation", "MaxIterationsError", "TimeoutError", "RuntimeError"}

\* the threads that share one MemoryCache
Threads == {"t1", "t2"}

\* the keys the threads use
ThreadKeys == {<<"a">>, <<"b">>}

\* node ids handed to the graph operations
GraphIds == {"a", "b", "c"}

\* edge types handed to add_link in the graph specification
GraphTypes == {"context_of", "follows"}

\* the add_link calls of the graph specification: a chain, a 2-cycle, a 3-cycle,
\* a self-loop, a pair joined under both types and a shortcut of another type
GraphEdges ==
    {<<"a", "b", "context_of">>, <<"b", "c", "context_of">>, <<"c", "a", "context_of">>,
     <<"b", "a", "context_of">>, <<"a", "a", "context_of">>, <<"a", "b", "follows">>,
     <<"a", "c", "follows">>}

\* every edge type of the data model
LinkTypes == {"context_of", "follows", "related_to", "supports", "contradicts"}

None == "None"

\* a link_types argument: None (given = FALSE) or a list of types
NoFilter == [given |-> FALSE, types |-> {}]

Filter(S) == [given |-> TRUE, types |-> S]

\* link_types arguments of traverse: None, an empty list, or a list of types
TypeFilters == {NoFilter, Filter({}), Filter({"context_of"}), Filter({"follows"})}

----------------------------------------------------------------------------
(* Python containers                                                       *)

EmptyDict == <<>>

\* d[k] = v
Put(d, k, v) == (k :> v) @@ d

Get(d, k, default) == IF k \in DOMAIN d THEN d[k] ELSE default

Range(s) == {s[i] : i \in 1..Len(s)}

Contains(s, x) == \E i \in 1..Len(s) : s[i] = x

\* list.append guarded by "if x not in list"
AppendNew(s, x) == IF Contains(s, x) THEN s ELSE Append(s, x)

\* the orders in which a Python set of ids may be iterated
Orders(S) == {o \in [1..Cardinality(S) -> S] : \A i, j \in 1..Cardinality(S) : o[i] = o[j] => i = j}

\* list(set(...)): the elements of S in the order they occur in ord
RECURSIVE ListOfSet(_, _)
ListOfSet(S, ord) ==
    IF ord = <<>> THEN <<>>
    ELSE IF Head(ord) \in S THEN <<Head(ord)>> \o ListOfSet(S, Tail(ord))
    ELSE ListOfSet(S, Tail(ord))

----------------------------------------------------------------------------
(* LinkGraph                                                               *)

\* f"{link_type}_reverse"
reverse_type(link_type) ==
    CASE link_type = "context_of" -> "context_of_reverse"
      [] link_type = "follows" -> "follows_reverse"
      [] link_type = "related_to" -> "related_to_reverse"
      [] link_type = "supports" -> "supports_reverse"
      [] link_type = "contradicts" -> "contradicts_reverse"

EmptyGraph == [forward |-> EmptyDict, reverse |-> EmptyDict]

\* the index file before the first _save
NoIndex == [exists |-> FALSE, forward |-> EmptyDict, reverse |-> EmptyDict]

\* LinkGraph._save: the file holds the maps of the graph object
Saved(g) == [exists |-> TRUE, forward |-> g.forward, reverse |-> g.reverse]

\* d[k].setdefault-style steps of add_link: "if k not in d: d[k] = {}"
EnsureKey(d, k) == IF k \in DOMAIN d THEN d ELSE Put(d, k, EmptyDict)

\* "if t not in d[k]: d[k][t] = []"
EnsureList(d, k, t) == IF t \in DOMAIN d[k] THEN d ELSE Put(d, k, Put(d[k], t, <<>>))

\* mutant of AppendLink: the append without its membership test
AppendLinkDup(d, k, t, x) == Put(d, k, Put(d[k], t, Append(d[k][t], x)))

\* "if x not in d[k][t]: d[k][t].append(x)"
AppendLink(d, k, t, x) == Put(d, k, Put(d[k], t, AppendNew(d[k][t], x)))

\* add_link that stores the link in both directions of the forward map
add_link_symmetric(g, from_id, to_id, link_type) ==
    LET fwd1 == EnsureKey(EnsureKey(g.forward, from_id), to_id)
        rev1 == EnsureKey(g.reverse, to_id)
        fwd2 == AppendLink(EnsureList(fwd1, from_id, link_type), from_id, link_type, to_id)
        fwd3 == AppendLink(EnsureList(fwd2, to_id, link_type), to_id, link_type, from_id)
        rt == reverse_type(link_type)
        rev2 == AppendLink(EnsureList(rev1, to_id, rt), to_id, rt, from_id)
    IN [forward |-> fwd3, reverse |-> rev2]

\* LinkGraph.add_link without _save: the maps after the call
add_link(g, from_id, to_id, link_type) ==
    LET fwd1 == EnsureKey(g.forward, from_id)
        rev1 == EnsureKey(g.reverse, to_id)
        fwd2 == AppendLink(EnsureList(fwd1, from_id, link_type), from_id, link_type, to_id)
        rt == reverse_type(link_type)
        rev2 == AppendLink(EnsureList(rev1, to_id, rt), to_id, rt, from_id)
        \* lines 98-104 repeat the reverse update
        rev3 == AppendLink(EnsureList(EnsureKey(rev2, to_id), to_id, rt), to_id, rt, from_id)
        fwd3 == EnsureKey(fwd2, to_id)
    IN [forward |-> fwd3, reverse |-> rev3]

\* get_outgoing(chunk_id, link_type) with a link type: the stored list
get_outgoing(g, chunk_id, link_type) ==
    IF chunk_id \notin DOMAIN g.forward THEN <<>>
    ELSE Get(g.forward[chunk_id], link_type, <<>>)

\* get_outgoing(chunk_id, None): list(set(result)), here the set
get_outgoing_all(g, chunk_id) ==
    IF chunk_id \notin DOMAIN g.forward THEN {}
    ELSE UNION {Range(g.forward[chunk_id][t]) : t \in DOMAIN g.forward[chunk_id]}

get_incoming(g, chunk_id, link_type) ==
    IF chunk_id \notin DOMAIN g.reverse THEN <<>>
    ELSE Get(g.reverse[chunk_id], reverse_type(link_type), <<>>)

get_incoming_all(g, chunk_id) ==
    IF chunk_id \notin DOMAIN g.reverse THEN {}
    ELSE UNION {Range(g.reverse[chunk_id][t]) : t \in DOMAIN g.reverse[chunk_id]}

\* "if link_types:" is false for None and for an empty list
Falsy(link_types) == ~link_types.given \/ link_types.types = {}

\* a link type filter that asks whether current_id has any edge of a given type,
\* not whether the edge to target_id has one
EdgeAllowedAnyTarget(g, current_id, target_id, link_types) ==
    \/ Falsy(link_types)
    \/ current_id \notin DOMAIN g.forward
    \/ \E lt \in DOMAIN g.forward[current_id] :
           g.forward[current_id][lt] # <<>> /\ lt \in link_types.types

\* the link type filter without its "lt in link_types" test
EdgeAllowedAnyType(g, current_id, target_id, link_types) == TRUE

\* the link type filter of traverse and get_path (lines 202-210)
EdgeAllowed(g, current_id, target_id, link_types) ==
    \/ Falsy(link_types)
    \/ current_id \notin DOMAIN g.forward
    \/ \E lt \in DOMAIN g.forward[current_id] :
           Contains(g.forward[current_id][lt], target_id) /\ lt \in link_types.types

\* the for loop of traverse over the outgoing targets of one node
RECURSIVE VisitTargets(_, _, _, _, _, _)
VisitTargets(g, current_id, depth, outgoing, link_types, st) ==
    IF outgoing = <<>> THEN st
    ELSE LET target_id == Head(outgoing)
             next == IF EdgeAllowed(g, current_id, target_id, link_types)
                        /\ target_id \notin st.visited
                     THEN [visited |-> st.visited \cup {target_id},
                           result |-> Append(st.result, target_id),
                           queue |-> Append(st.queue, <<target_id, depth + 1>>)]
                     ELSE st
         IN VisitTargets(g, current_id, depth, Tail(outgoing), link_types, next)

\* mutants of the depth test: an off-by-one, and max_depth = 0 read as "no limit"
DepthReachedOffByOne(depth, max_depth) == depth > max_depth

DepthReachedZeroUnlimited(depth, max_depth) == max_depth # 0 /\ depth >= max_depth

\* "if depth >= max_depth: continue"
DepthReached(depth, max_depth) == depth >= max_depth

\* the while loop of traverse
RECURSIVE TraverseLoop(_, _, _, _, _)
TraverseLoop(g, st, max_depth, link_types, ord) ==
    IF st.queue = <<>> THEN st.result
    ELSE LET current_id == Head(st.queue)[1]
             depth == Head(st.queue)[2]
             popped == [st EXCEPT !.queue = Tail(@)]
         IN IF DepthReached(depth, max_depth)
            THEN TraverseLoop(g, popped, max_depth, link_types, ord)
            ELSE TraverseLoop(g,
                     VisitTargets(g, current_id, depth,
                                  ListOfSet(get_outgoing_all(g, current_id), ord),
                                  link_types, popped),
                     max_depth, link_types, ord)

\* the for loop of get_path over the outgoing targets of one node: the path
\* returned (found) or the visited set and the queue after the last target
RECURSIVE PathTargets(_, _, _, _, _, _, _)
PathTargets(g, current_id, path, to_id, outgoing, link_types, st) ==
    IF outgoing = <<>> THEN st
    ELSE LET target_id == Head(outgoing)
             rest == Tail(outgoing)
         IN IF ~EdgeAllowed(g, current_id, target_id, link_types)
            THEN PathTargets(g, current_id, path, to_id, rest, link_types, st)
            ELSE IF target_id = to_id
            THEN [st EXCEPT !.found = TRUE, !.path = Append(path, target_id)]
            ELSE IF target_id \notin st.visited
            THEN PathTargets(g, current_id, path, to_id, rest, link_types,
                             [st EXCEPT !.visited = @ \cup {target_id},
                                        !.queue = Append(@, <<target_id, Append(path, target_id)>>)])
            ELSE PathTargets(g, current_id, path, to_id, rest, link_types, st)

\* the while loop of get_path
RECURSIVE PathLoop(_, _, _, _, _)
PathLoop(g, st, to_id, link_types, ord) ==
    IF st.found THEN st.path
    ELSE IF st.queue = <<>> THEN None
    ELSE LET current_id == Head(st.queue)[1]
             path == Head(st.queue)[2]
         IN PathLoop(g,
                PathTargets(g, current_id, path, to_id,
                            ListOfSet(get_outgoing_all(g, current_id), ord),
                            link_types, [st EXCEPT !.queue = Tail(@)]),
                to_id, link_types, ord)

\* LinkGraph.get_path; ord is the iteration order of the sets of ids
get_path(g, from_id, to_id, link_types, ord) ==
    IF from_id = to_id THEN <<from_id>>
    ELSE PathLoop(g, [found |-> FALSE, path |-> <<>>, visited |-> {from_id},
                      queue |-> <<<<from_id, <<from_id>>>>>>],
                  to_id, link_types, ord)

\* LinkGraph.traverse; ord is the iteration order of the sets of ids
traverse(g, start_id, max_depth, link_types, ord) ==
    TraverseLoop(g, [visited |-> {start_id}, result |-> <<>>,
                     queue |-> <<<<start_id, 0>>>>],
                 max_depth, link_types, ord)

----------------------------------------------------------------------------
(* State of the graph object                                               *)

Graph == [forward |-> forward, reverse |-> reverse]

NoCall == [op |-> "none"]

\* a thread that is in no call
IdleThread ==
    [pc |-> "idle", op |-> None, key |-> <<>>, value |-> None, entry |-> None,
     t |-> 0, snap |-> EmptyDict, pending |-> {}, count |-> 0, result |-> None,
     exc |-> None]

\* no primitive has run since the session was built or reset
NoHistory ==
    [finals |-> 0, first_answer |-> None, llm_calls |-> 0, provider_calls |-> 0,
     reported_cost |-> 0]

\* _setup_namespace: the user part of the namespace is a copy of _state; the
\* primitives live under __builtins__, which user code does not replace
setup_namespace(st) == st

\* REPLSession.__init__: the session as constructed
NewSession ==
    [state |-> EmptyDict, namespace |-> setup_namespace(EmptyDict), iteration_count |-> 0,
     total_cost |-> 0, result |-> None, complete |-> FALSE,
     output |-> <<>>, stderr |-> <<>>, hist |-> NoHistory]

Init ==
    /\ forward = EmptyDict
    /\ reverse = EmptyDict
    /\ index = NoIndex
    /\ last = NoCall
    /\ chunks = EmptyDict
    /\ held = EmptyDict
    /\ clock = 0
    /\ state = NewSession.state
    /\ namespace = NewSession.namespace
    /\ iteration_count = NewSession.iteration_count
    /\ total_cost = NewSession.total_cost
    /\ result = NewSession.result
    /\ complete = NewSession.complete
    /\ output = NewSession.output
    /\ stderr = NewSession.stderr
    /\ hist = NewSession.hist
    /\ memory = EmptyDict
    /\ disk = EmptyDict
    /\ has_disk = TRUE
    /\ removed_keys = {}
    /\ lock = None
    /\ docs = EmptyDict
    /\ writes = EmptyDict
    /\ threads = [th \in Threads |-> IdleThread]
    /\ time = 0

\* the caller has taken the outcome of its call and goes on to the next one
Resume ==
    /\ last # NoCall
    /\ last' = NoCall
    /\ UNCHANGED <<graphVars, linkerVars, sessionVars, cacheVars>>

\* LinkGraph.add_link, with its _save
AddLink(from_id, to_id, link_type) ==
    \E g \in {add_link(Graph, from_id, to_id, link_type)} :
       /\ forward' = g.forward
       /\ reverse' = g.reverse
       /\ index' = Saved(g)
       /\ last' = [op |-> "add_link",
                   repeat |-> Contains(get_outgoing(Graph, from_id, link_type), to_id)]

\* LinkGraph.traverse. It changes nothing of the graph, so a traverse that follows
\* another traverse or a get_path reaches no result the first could not: one
\* query is made per graph state.
Traverse(start_id, max_depth, link_types, ord) ==
    /\ last.op \notin {"traverse", "get_path"}
    /\ last' = [op |-> "traverse", start_id |-> start_id, max_depth |-> max_depth,
                link_types |-> link_types,
                result |-> traverse(Graph, start_id, max_depth, link_types, ord)]
    /\ UNCHANGED graphVars

\* LinkGraph.get_path, which changes nothing of the graph either
GetPath(from_id, to_id, link_types, ord) ==
    /\ last.op \notin {"traverse", "get_path"}
    /\ last' = [op |-> "get_path", from_id |-> from_id, to_id |-> to_id,
                link_types |-> link_types,
                result |-> get_path(Graph, from_id, to_id, link_types, ord)]
    /\ UNCHANGED graphVars

GraphStep ==
    \/ \E e \in GraphEdges : AddLink(e[1], e[2], e[3])
    \/ \E f \in GraphIds, t \in GraphIds, lts \in TypeFilters, ord \in Orders(GraphIds) :
           GetPath(f, t, lts, ord)
    \/ \E s \in GraphIds, d \in 0..MaxDepth, lts \in TypeFilters, ord \in Orders(GraphIds) :
           Traverse(s, d, lts, ord)

NextGraph ==
    GraphStep /\ UNCHANGED <<linkerVars, sessionVars, cacheVars, threadVars, recallVars, writeVars>>

SpecGraph == Init /\ [][NextGraph]_vars

----------------------------------------------------------------------------
(* ChunkStore (memory_store), as the specification describes it            *)

EmptyLinks ==
    [context_of |-> <<>>, follows |-> <<>>, related_to |-> <<>>,
     supports |-> <<>>, contradicts |-> <<>>]

\* the ids of a set of chunks as list_chunks returns them: in a stable order
RECURSIVE SortedList(_)
SortedList(S) ==
    IF S = {} THEN <<>>
    ELSE LET m == CHOOSE x \in S : \A y \in S : x <= y
         IN <<m>> \o SortedList(S \ {m})

\* ChunkStore.list_chunks(conversation_id=...)
list_chunks(store, conversation_id) ==
    SortedList({c \in DOMAIN store : store[c].conversation_id = conversation_id})

\* ChunkStore.list_chunks(conversation_id, created_after, created_before)
list_chunks_window(store, conversation_id, created_after, created_before) ==
    SortedList({c \in DOMAIN store :
                  /\ store[c].conversation_id = conversation_id
                  /\ store[c].created >= created_after
                  /\ store[c].created < created_before})

\* ChunkStore.tag_index.get_list(tag)
tag_index_get_list(store, tag) == {c \in DOMAIN store : tag \in store[c].tags}

\* ChunkStore.create_chunk: a fresh id, the record persisted with empty link lists
create_chunk(store, conversation_id, tags, now) ==
    Put(store, Cardinality(DOMAIN store) + 1,
        [conversation_id |-> conversation_id, tags |-> tags, created |-> now,
         links |-> EmptyLinks])

----------------------------------------------------------------------------
(* AutoLinker                                                              *)

\* A linker pass works on st = [obj, store, g, index]: the links of the new Chunk
\* object, the chunk files, the linker's LinkGraph and the index file.

\* self.link_graph.add_link(...): the linker's graph object changes and is saved
LinkerAddLink(st, from_id, to_id, link_type) ==
    LET g == add_link(st.g, from_id, to_id, link_type)
    IN [st EXCEPT !.g = g, !.index = Saved(g)]

\* a save that writes the one list and empties the chunk's other lists
SaveLinksOnly(store, chunk_id, link_type, list) ==
    Put(store, chunk_id,
        [store[chunk_id] EXCEPT !.links = [EmptyLinks EXCEPT ![link_type] = list]])

\* _save_chunk of a chunk re-read from the store with one link list replaced
SaveLinks(store, chunk_id, link_type, list) ==
    Put(store, chunk_id,
        [store[chunk_id] EXCEPT !.links = [store[chunk_id].links EXCEPT ![link_type] = list]])

\* mutant of add_reverse_link: the edge goes to the graph only, the target's record
\* is not rewritten
add_reverse_link_graph_only(st, chunk_id, target_id, link_type) ==
    IF chunk_id \notin DOMAIN st.store THEN st
    ELSE IF Contains(st.store[chunk_id].links[link_type], target_id) THEN st
    ELSE LinkerAddLink(st, chunk_id, target_id, link_type)

\* AutoLinker._add_reverse_link and AutoLinker._add_related_to_link
add_reverse_link(st, chunk_id, target_id, link_type) ==
    IF chunk_id \notin DOMAIN st.store THEN st
    ELSE IF Contains(st.store[chunk_id].links[link_type], target_id) THEN st
    ELSE LinkerAddLink(
             [st EXCEPT !.store = SaveLinks(st.store, chunk_id, link_type,
                                            Append(st.store[chunk_id].links[link_type], target_id))],
             chunk_id, target_id, link_type)

\* AutoLinker._find_conversation_chunks
find_conversation_chunks(store, conversation_id, exclude) ==
    SelectSeq(list_chunks(store, conversation_id), LAMBDA c : c # exclude)

\* a temporal search without the window: every other chunk of the conversation
find_temporal_predecessors_no_window(store, created, conversation_id, exclude) ==
    SelectSeq(list_chunks(store, conversation_id), LAMBDA c : c # exclude)

\* AutoLinker._find_temporal_predecessors
find_temporal_predecessors(store, created, conversation_id, exclude) ==
    SelectSeq(list_chunks_window(store, conversation_id, created - TemporalWindow, created),
              LAMBDA c : c # exclude)

\* a tag search that wants every tag shared, not any
find_tag_related_every_tag(store, tags, exclude) ==
    {c \in DOMAIN store : tags # {} /\ tags \subseteq store[c].tags} \ {exclude}

\* AutoLinker._find_tag_related, before list(related)
find_tag_related(store, tags, exclude) ==
    UNION {tag_index_get_list(store, tag) : tag \in tags} \ {exclude}

\* pass 1 of link_on_create (lines 300-306)
RECURSIVE ContextPass(_, _, _)
ContextPass(st, chunk_id, targets) ==
    IF targets = <<>> THEN st
    ELSE LET target_id == Head(targets)
             linked == LinkerAddLink([st EXCEPT !.obj.context_of = Append(@, target_id)],
                                     chunk_id, target_id, "context_of")
             next == IF Contains(st.obj.context_of, target_id) THEN st
                     ELSE add_reverse_link(linked, target_id, chunk_id, "context_of")
         IN ContextPass(next, chunk_id, Tail(targets))

\* pass 2 of link_on_create (lines 309-315)
RECURSIVE TemporalPass(_, _, _)
TemporalPass(st, chunk_id, targets) ==
    IF targets = <<>> THEN st
    ELSE LET target_id == Head(targets)
             next == IF Contains(st.obj.follows, target_id) THEN st
                     ELSE LinkerAddLink([st EXCEPT !.obj.follows = Append(@, target_id)],
                                        chunk_id, target_id, "follows")
         IN TemporalPass(next, chunk_id, Tail(targets))

\* mutant of SkipRelated: the tag pass without its context_of test
SkipRelatedNoContextTest(obj, target_id) == Contains(obj.related_to, target_id)

\* "if target_id not in context_of: if target_id not in related_to:" (lines 321-322)
SkipRelated(obj, target_id) ==
    Contains(obj.context_of, target_id) \/ Contains(obj.related_to, target_id)

\* pass 3 of link_on_create (lines 318-326)
RECURSIVE TagPass(_, _, _)
TagPass(st, chunk_id, targets) ==
    IF targets = <<>> THEN st
    ELSE LET target_id == Head(targets)
             linked == LinkerAddLink([st EXCEPT !.obj.related_to = Append(@, target_id)],
                                     chunk_id, target_id, "related_to")
             next == IF SkipRelated(st.obj, target_id) THEN st
                     ELSE add_reverse_link(linked, target_id, chunk_id, "related_to")
         IN TagPass(next, chunk_id, Tail(targets))

\* AutoLinker.link_on_create on the Chunk object obj of chunk chunk_id; ord is the
\* order of list(related). The result is [obj, store, g, index] after the final save.
link_on_create(obj, store, g, idx, chunk_id, ord) ==
    LET conversation_id == store[chunk_id].conversation_id
        created == store[chunk_id].created
        tags == store[chunk_id].tags
        st0 == [obj |-> obj, store |-> store, g |-> g, index |-> idx]
        st1 == ContextPass(st0, chunk_id,
                           find_conversation_chunks(st0.store, conversation_id, chunk_id))
        st2 == TemporalPass(st1, chunk_id,
                            find_temporal_predecessors(st1.store, created, conversation_id, chunk_id))
        st3 == TagPass(st2, chunk_id,
                       ListOfSet(find_tag_related(st2.store, tags, chunk_id), ord))
    IN [st3 EXCEPT !.store = Put(st3.store, chunk_id, [st3.store[chunk_id] EXCEPT !.links = st3.obj])]

\* add_manual_link that does not test the link type
add_manual_link_any_type(store, idx, from_id, to_id, link_type, store_given) ==
    IF ~store_given THEN [store |-> store, index |-> idx, ok |-> FALSE]
    ELSE IF from_id \notin DOMAIN store THEN [store |-> store, index |-> idx, ok |-> FALSE]
    ELSE [store |-> SaveLinks(store, from_id, link_type,
                              AppendNew(store[from_id].links[link_type], to_id)),
          index |-> Saved(add_link([forward |-> idx.forward, reverse |-> idx.reverse],
                                   from_id, to_id, link_type)),
          ok |-> TRUE]

\* add_manual_link(from_id, to_id, link_type, chunk_store=...): the chunk files
\* and the index file afterwards, and the value returned. The graph it writes
\* is the one a new AutoLinker loads from the index file.
add_manual_link(store, idx, from_id, to_id, link_type, store_given) ==
    IF ~store_given THEN [store |-> store, index |-> idx, ok |-> FALSE]
    ELSE IF link_type \notin {"supports", "contradicts"}
    THEN [store |-> store, index |-> idx, ok |-> FALSE]
    ELSE IF from_id \notin DOMAIN store THEN [store |-> store, index |-> idx, ok |-> FALSE]
    ELSE [store |-> SaveLinks(store, from_id, link_type,
                              AppendNew(store[from_id].links[link_type], to_id)),
          index |-> Saved(add_link([forward |-> idx.forward, reverse |-> idx.reverse],
                                   from_id, to_id, link_type)),
          ok |-> TRUE]

----------------------------------------------------------------------------
(* The caller of the store and the linker                                  *)

\* store.create_chunk(...), gap ticks after the previous one (only create_chunk
\* reads the clock, and the first chunk sets the origin of time); the caller keeps
\* the returned Chunk object
CreateChunk(conversation_id, tags, gap) ==
    /\ last = NoCall
    /\ Cardinality(DOMAIN chunks) + 1 \in ChunkIds
    /\ chunks = EmptyDict => gap = 0
    /\ clock' = clock + gap
    /\ chunks' = create_chunk(chunks, conversation_id, tags, clock')
    /\ held' = Put(held, Cardinality(DOMAIN chunks) + 1, [links |-> EmptyLinks, linked |-> FALSE])
    /\ UNCHANGED <<graphVars, last>>

\* linker.link_on_create(chunk) on the object create_chunk returned to the caller
LinkOnCreate(chunk_id, ord) ==
    /\ last = NoCall
    /\ ~held[chunk_id].linked
    /\ \E r \in {link_on_create(held[chunk_id].links, chunks, Graph, index, chunk_id, ord)} :
           /\ chunks' = r.store
           /\ held' = Put(held, chunk_id, [links |-> r.obj, linked |-> TRUE])
           /\ forward' = r.g.forward
           /\ reverse' = r.g.reverse
           /\ index' = r.index
    /\ UNCHANGED <<clock, last>>

\* add_manual_link(from_id, to_id, link_type, chunk_store=store or None)
AddManualLink(from_id, to_id, link_type, store_given) ==
    /\ last = NoCall
    /\ \E r \in {add_manual_link(chunks, index, from_id, to_id, link_type, store_given)} :
           /\ chunks' = r.store
           /\ index' = r.index
           /\ last' = [op |-> "add_manual_link", from_id |-> from_id, to_id |-> to_id,
                       link_type |-> link_type, store_given |-> store_given, ok |-> r.ok]
    /\ UNCHANGED <<forward, reverse, held, clock>>

LinkerStep ==
    \/ \E c \in Convs, tags \in TagSets, gap \in 0..MaxGap : CreateChunk(c, tags, gap)
    \/ \E chunk_id \in DOMAIN chunks :
           \E ord \in Orders(find_tag_related(chunks, chunks[chunk_id].tags, chunk_id)) :
               LinkOnCreate(chunk_id, ord)

NextLinker == LinkerStep /\ UNCHANGED <<sessionVars, cacheVars, threadVars, recallVars, writeVars>>

SpecLinker == Init /\ [][NextLinker]_vars

\* the store and the linker with manual links: chunks with one tag, created
\* one tick apart
ManualStep ==
    \/ \E c \in Convs : CreateChunk(c, {"t1"}, IF chunks = EmptyDict THEN 0 ELSE 1)
    \/ \E chunk_id \in DOMAIN chunks :
           \E ord \in Orders(find_tag_related(chunks, chunks[chunk_id].tags, chunk_id)) :
               LinkOnCreate(chunk_id, ord)
    \/ \E m \in ManualLinks, store_given \in BOOLEAN :
           AddManualLink(m.from_id, m.to_id, m.link_type, store_given)
    \/ Resume

NextManual == ManualStep /\ UNCHANGED <<sessionVars, cacheVars, threadVars, recallVars, writeVars>>

SpecManual == Init /\ [][NextManual]_vars

----------------------------------------------------------------------------
(* REPLSession (repl_environment.py)                                       *)

\* the session's fields as one record
Session ==
    [state |-> state, namespace |-> namespace, iteration_count |-> iteration_count,
     total_cost |-> total_cost, result |-> result, complete |-> complete,
     output |-> output, stderr |-> stderr, hist |-> hist]

\* the fields of the session object itself, without the history
Fields(s) ==
    <<s.state, s.namespace, s.iteration_count, s.total_cost, s.result, s.complete,
      s.output, s.stderr>>

\* a call returns a value / raises an exception, at the named place
Return(s, v) == [s |-> s, exc |-> None, at |-> None, value |-> v]

\* a raise that also takes the counters back to zero
RaiseClearing(s, e, where) ==
    [s |-> [s EXCEPT !.iteration_count = 0, !.total_cost = 0],
     exc |-> e, at |-> where, value |-> None]

Raise(s, e, where) == [s |-> s, exc |-> e, at |-> where, value |-> None]

\* the test that opens _final_wrapper, without it
AlreadyCompleteNever(s) == FALSE

\* the test that opens _final_wrapper
AlreadyComplete(s) == s.complete

\* _final_wrapper
final_wrapper(s, answer) ==
    IF AlreadyComplete(s)
    THEN Raise(s, "RuntimeError", "FINAL")
    ELSE Return([s EXCEPT !.result = answer,
                          !.complete = TRUE,
                          !.hist = [@ EXCEPT !.finals = @ + 1,
                                             !.first_answer =
                                                 IF s.hist.finals = 0 THEN answer ELSE @]],
                None)

\* the limit test of _llm_query_wrapper, one call too generous
IterationsExceededOffByOne(count) == count > max_iterations + 1

\* the limit test of _llm_query_wrapper
IterationsExceeded(count) == count > max_iterations

\* the session after llm_client.complete was reached by one more llm_query call
ProviderInvoked(s) == [s EXCEPT !.hist.provider_calls = @ + 1]

\* _llm_query_wrapper; response is what llm_client.complete does on this call:
\* it returns an object with a cost_usd ("cost") or without one ("plain"), raises
\* ("error"), or raises AttributeError, after which the handler calls it a
\* second time and it returns a response ("retry_cost") or raises again ("retry_error")
llm_query_wrapper(s, response) ==
    LET s1 == [s EXCEPT !.iteration_count = @ + 1, !.hist.llm_calls = @ + 1]
        s2 == ProviderInvoked(s1)
    IN
    IF IterationsExceeded(s1.iteration_count)
    THEN Raise(s1, "MaxIterationsError", "llm_query")
    ELSE IF response.kind = "error"
    THEN Raise(s2, "Exception", "llm_query")
    ELSE IF response.kind = "cost"
    THEN Return([s2 EXCEPT !.total_cost = @ + response.cost_usd,
                           !.hist.reported_cost = @ + response.cost_usd], "text")
    ELSE IF response.kind = "plain"
    THEN Return(s2, "text")
    ELSE IF response.kind = "retry_cost"
    THEN Return([s2 EXCEPT !.hist.reported_cost = @ + response.cost_usd], "text")
    ELSE Raise(s2, "AttributeError", "llm_query")

\* one top-level statement run against the namespace; a name bound by user
\* code at top level hides the primitive of that name in __builtins__
ExecStmt(s, stmt) ==
    IF stmt.op = "assign"
    THEN Return([s EXCEPT !.namespace = Put(@, stmt.name, stmt.value)], None)
    ELSE IF stmt.op \in DOMAIN s.namespace
    THEN Raise(s, "TypeError", "call")
    ELSE IF stmt.op = "FINAL"
    THEN final_wrapper(s, stmt.answer)
    ELSE IF stmt.op = "llm_query"
    THEN llm_query_wrapper(s, stmt.response)
    ELSE Raise(s, "ImportError", "import")   \* __import__ is not among the builtins

\* exec(compiled, namespace): statements in order, stopped by the first exception
RECURSIVE exec_statements(_, _)
exec_statements(s, code) ==
    IF code = <<>>
    THEN Return(s, None)
    ELSE LET r == ExecStmt(s, Head(code)) IN
         IF r.exc # None THEN r ELSE exec_statements(r.s, Tail(code))

\* module.split('.')[0] in visit_Import and visit_ImportFrom
FirstComponent(module) == <<Head(module)>>

\* check_safety: the statements the visitor reports
check_safety(code) ==
    {i \in DOMAIN code :
        code[i].op = "import" /\ FirstComponent(code[i].module) \in BLOCKED_MODULES}

\* compile(code, '<repl>', 'eval') succeeds: the code is one expression
IsExpression(code) == Len(code) = 1 /\ code[1].op \in {"FINAL", "llm_query"}

\* a state update that records the names with a leading underscore too
UpdateStateAllNames(st, ns) ==
    [k \in DOMAIN st \cup DOMAIN ns |-> IF k \in DOMAIN ns THEN ns[k] ELSE st[k]]

\* the state update that follows exec: every namespace key without a leading underscore
UpdateState(st, ns) ==
    LET keys == {k \in DOMAIN ns : k \notin UnderscoreNames} IN
    [k \in DOMAIN st \cup keys |-> IF k \in keys THEN ns[k] ELSE st[k]]

\* the captured stdout and stderr are appended; the modelled code prints nothing
Capture(s) == [s EXCEPT !.output = Append(@, ""), !.stderr = Append(@, "")]

\* the first test of execute, made after the test for empty code
RefusedWhenCompleteNonEmpty(s, code) == s.complete /\ code # <<>>

\* the first test of execute
RefusedWhenComplete(s, code) == s.complete

\* execute; slow says that the elapsed time exceeded the timeout
execute(s, code, slow) ==
    IF RefusedWhenComplete(s, code)
    THEN Raise(s, "RuntimeError", "execute")
    ELSE IF code = <<>>
    THEN Return(s, None)
    ELSE IF check_safety(code) # {}
    THEN Raise(s, "SandboxViolation", "execute")
    ELSE IF IsExpression(code)
    THEN LET r == ExecStmt(s, code[1]) IN
         IF r.exc # None THEN r
         ELSE IF slow THEN Raise(r.s, "TimeoutError", "execute")
         ELSE Return(Capture(r.s), r.value)
    ELSE LET r == exec_statements(s, code)
             s2 == [r.s EXCEPT !.state = UpdateState(@, r.s.namespace)]
         IN  IF r.exc # None THEN r
             ELSE IF slow THEN Raise(s2, "TimeoutError", "execute")
             ELSE Return(Capture(s2), None)

\* retrieve with its test inverted
retrieve_inverted(s) == IF s.complete THEN None ELSE s.result

\* retrieve
retrieve(s) == IF s.complete THEN s.result ELSE None

\* reset without the rebuild of the namespace
reset_keeps_namespace(s) ==
    [s EXCEPT !.state = EmptyDict, !.iteration_count = 0, !.total_cost = 0,
              !.result = None, !.complete = FALSE, !.output = <<>>, !.stderr = <<>>,
              !.hist = NoHistory]

\* reset
reset(s) ==
    LET cleared == [s EXCEPT !.state = EmptyDict, !.iteration_count = 0, !.total_cost = 0,
                             !.result = None, !.complete = FALSE,
                             !.output = <<>>, !.stderr = <<>>, !.hist = NoHistory]
    IN  [cleared EXCEPT !.namespace = setup_namespace(cleared.state)]

(* The caller of the session *)

\* the session's fields take the values of the record s
SetSession(s) ==
    /\ state' = s.state
    /\ namespace' = s.namespace
    /\ iteration_count' = s.iteration_count
    /\ total_cost' = s.total_cost
    /\ result' = s.result
    /\ complete' = s.complete
    /\ output' = s.output
    /\ stderr' = s.stderr
    /\ hist' = s.hist

\* nothing of the session before a call was taken back by the call: the
\* counters did not fall and every bound name is still bound
Retained(before, after) ==
    /\ after.iteration_count >= before.iteration_count
    /\ after.total_cost >= before.total_cost
    /\ DOMAIN before.namespace \subseteq DOMAIN after.namespace
    /\ DOMAIN before.state \subseteq DOMAIN after.state

\* the top-level names the statements of code bind before the first exception,
\* with the value each one has in the end
RECURSIVE BoundBy(_, _, _)
BoundBy(s, code, acc) ==
    IF code = <<>> THEN acc
    ELSE LET r == ExecStmt(s, Head(code)) IN
         IF r.exc # None THEN acc
         ELSE BoundBy(r.s, Tail(code),
                      IF Head(code).op = "assign"
                      THEN Put(acc, Head(code).name, Head(code).value) ELSE acc)

\* the names a call execute(code) binds: none when the call is refused
Bound(s, code) ==
    IF RefusedWhenComplete(s, code) \/ check_safety(code) # {} THEN EmptyDict
    ELSE BoundBy(s, code, EmptyDict)

\* session.execute(code)
Execute(code, slow) ==
    /\ last = NoCall
    /\ \E r \in {execute(Session, code, slow)} :
           /\ Len(r.s.output) <= MaxOutput
           /\ r.s.iteration_count <= max_iterations + MaxOvershoot
           /\ SetSession(r.s)
           /\ last' = [op |-> "execute", exc |-> r.exc, at |-> r.at, value |-> r.value,
                       was_complete |-> complete,
                       empty |-> code = <<>>,
                       statements |-> code # <<>> /\ ~IsExpression(code),
                       bound |-> Bound(Session, code),
                       denied |-> \E i \in DOMAIN code :
                                     code[i].op = "import" /\ code[i].module \in BLOCKED_MODULES,
                       changed |-> Fields(r.s) # Fields(Session),
                       retained |-> Retained(Session, r.s),
                       final_fired |-> r.s.hist.finals > hist.finals]
    /\ UNCHANGED <<graphVars, linkerVars>>

\* session.retrieve()
Retrieve ==
    /\ last = NoCall
    /\ last' = [op |-> "retrieve", value |-> retrieve(Session)]
    /\ UNCHANGED <<graphVars, linkerVars, sessionVars>>

\* session.reset()
Reset ==
    /\ last = NoCall
    /\ SetSession(reset(Session))
    /\ last' = [op |-> "reset", was_complete |-> complete,
                was_bound |-> namespace # EmptyDict,
                was_used |-> iteration_count > 0 /\ total_cost > 0 /\ output # <<>>]
    /\ UNCHANGED <<graphVars, linkerVars>>

SessionStep ==
    \/ \E code \in Programs, slow \in BOOLEAN : Execute(code, slow)
    \/ Retrieve
    \/ Reset
    \/ Resume

NextSession == SessionStep /\ UNCHANGED <<cacheVars, threadVars, recallVars, writeVars>>

SpecSession == Init /\ [][NextSession]_vars

----------------------------------------------------------------------------
(* MemoryCache, DiskCache, CacheManager (cache_system.py)                  *)

\* the manager and its two tiers as one record
Cache == [memory |-> memory, disk |-> disk, has_disk |-> has_disk]

\* CacheEntry(value, timestamp, ttl), and the dictionary a cache file holds
CacheEntry(value, timestamp, ttl) == [value |-> value, timestamp |-> timestamp, ttl |-> ttl]

\* "if ttl is None: ttl = self._default_ttl"; a ttl argument is <<>> for None
\* and <<n>> for the number n
TtlOrDefault(ttl) == IF ttl = <<>> THEN default_ttl ELSE ttl[1]

\* the expiry test, with >= in place of >
ExpiredAtTtl(entry, t) == t - entry.timestamp >= entry.ttl

\* the expiry test of get and cleanup: time.time() - timestamp > ttl
Expired(entry, t) == t - entry.timestamp > entry.ttl

\* a dictionary without the key k
Without(d, k) == [x \in DOMAIN d \ {k} |-> d[x]]

\* MemoryCache.get at time t: the value returned and the cache afterwards
memory_get(mem, key, t) ==
    IF key \notin DOMAIN mem THEN [cache |-> mem, value |-> None]
    ELSE IF Expired(mem[key], t) THEN [cache |-> Without(mem, key), value |-> None]
    ELSE [cache |-> mem, value |-> mem[key].value]

\* MemoryCache.set at time t
memory_set(mem, key, value, ttl, t) == Put(mem, key, CacheEntry(value, t, TtlOrDefault(ttl)))

\* MemoryCache.delete
memory_delete(mem, key) ==
    IF key \in DOMAIN mem
    THEN [cache |-> Without(mem, key), deleted |-> TRUE]
    ELSE [cache |-> mem, deleted |-> FALSE]

\* MemoryCache.clear
memory_clear(mem) == EmptyDict

\* cleanup that stops after the first expired entry it removes
cleanup_first_only(mem, t) ==
    LET expired == {k \in DOMAIN mem : Expired(mem[k], t)} IN
    IF expired = {} THEN [cache |-> mem, removed |-> 0]
    ELSE [cache |-> Without(mem, CHOOSE k \in expired : TRUE), removed |-> 1]

\* MemoryCache.cleanup at time t; DiskCache.cleanup does the same file by file
cleanup(mem, t) ==
    LET expired == {k \in DOMAIN mem : Expired(mem[k], t)} IN
    [cache |-> [k \in DOMAIN mem \ expired |-> mem[k]], removed |-> Cardinality(expired)]

\* the characters _get_cache_path keeps
SafeChars == {"a", "b", "-", "_", "."}

\* _get_cache_path: the key without the characters that are not kept, a key
\* being the sequence of its characters
safe_key(key) == SelectSeq(key, LAMBDA c : c \in SafeChars)

\* DiskCache.get at time t: the value returned and the files afterwards
disk_get(files, key, t) ==
    LET path == safe_key(key) IN
    IF path \notin DOMAIN files THEN [cache |-> files, value |-> None]
    ELSE IF Expired(files[path], t) THEN [cache |-> Without(files, path), value |-> None]
    ELSE [cache |-> files, value |-> files[path].value]

\* DiskCache.set at time t
disk_set(files, key, value, ttl, t) ==
    Put(files, safe_key(key), CacheEntry(value, t, TtlOrDefault(ttl)))

\* DiskCache.delete
disk_delete(files, key) ==
    LET path == safe_key(key) IN
    IF path \in DOMAIN files
    THEN [cache |-> Without(files, path), deleted |-> TRUE]
    ELSE [cache |-> files, deleted |-> FALSE]

\* DiskCache.clear
disk_clear(files) == EmptyDict

\* CacheManager.get that promotes nothing
manager_get_no_promotion(c, key, use_disk, t) ==
    LET m == memory_get(c.memory, key, t)
        d == disk_get(c.disk, key, t)
    IN  IF m.value # None
        THEN [cache |-> [c EXCEPT !.memory = m.cache], value |-> m.value, disk_read |-> FALSE]
        ELSE IF use_disk /\ c.has_disk
        THEN [cache |-> [c EXCEPT !.memory = m.cache, !.disk = d.cache],
              value |-> d.value, disk_read |-> TRUE]
        ELSE [cache |-> [c EXCEPT !.memory = m.cache], value |-> None, disk_read |-> FALSE]

\* CacheManager.get at time t: the value returned, the cache afterwards, and
\* whether DiskCache.get was called
manager_get(c, key, use_disk, t) ==
    LET m == memory_get(c.memory, key, t)
        d == disk_get(c.disk, key, t)
    IN  IF m.value # None
        THEN [cache |-> [c EXCEPT !.memory = m.cache], value |-> m.value, disk_read |-> FALSE]
        ELSE IF use_disk /\ c.has_disk
        THEN IF d.value # None
             THEN [cache |-> [c EXCEPT !.memory = memory_set(m.cache, key, d.value, <<>>, t),
                                       !.disk = d.cache],
                   value |-> d.value, disk_read |-> TRUE]
             ELSE [cache |-> [c EXCEPT !.memory = m.cache, !.disk = d.cache],
                   value |-> None, disk_read |-> TRUE]
        ELSE [cache |-> [c EXCEPT !.memory = m.cache], value |-> None, disk_read |-> FALSE]

\* CacheManager.set that writes the disk tier whenever there is one
manager_set_always_disk(c, key, value, ttl, use_disk, t) ==
    LET mem == memory_set(c.memory, key, value, ttl, t) IN
    IF c.has_disk
    THEN [c EXCEPT !.memory = mem, !.disk = disk_set(c.disk, key, value, ttl, t)]
    ELSE [c EXCEPT !.memory = mem]

\* CacheManager.set at time t
manager_set(c, key, value, ttl, use_disk, t) ==
    LET mem == memory_set(c.memory, key, value, ttl, t) IN
    IF use_disk /\ c.has_disk
    THEN [c EXCEPT !.memory = mem, !.disk = disk_set(c.disk, key, value, ttl, t)]
    ELSE [c EXCEPT !.memory = mem]

\* CacheManager.delete that leaves the disk tier alone
manager_delete_memory_only(c, key) ==
    LET m == memory_delete(c.memory, key) IN
    [cache |-> [c EXCEPT !.memory = m.cache], deleted |-> m.deleted]

\* CacheManager.delete
manager_delete(c, key) ==
    LET m == memory_delete(c.memory, key)
        d == IF c.has_disk THEN disk_delete(c.disk, key)
             ELSE [cache |-> c.disk, deleted |-> FALSE]
    IN  [cache |-> [c EXCEPT !.memory = m.cache, !.disk = d.cache],
         deleted |-> m.deleted \/ d.deleted]

\* CacheManager.clear
manager_clear(c) ==
    [c EXCEPT !.memory = memory_clear(c.memory),
              !.disk = IF c.has_disk THEN disk_clear(c.disk) ELSE @]

\* CacheManager.cleanup at time t
manager_cleanup(c, t) ==
    LET m == cleanup(c.memory, t)
        d == IF c.has_disk THEN cleanup(c.disk, t) ELSE [cache |-> c.disk, removed |-> 0]
    IN  [cache |-> [c EXCEPT !.memory = m.cache, !.disk = d.cache],
         memory |-> m.removed, disk |-> d.removed]

(* The caller of the cache *)

\* the manager's fields take the values of the record c
SetCache(c) ==
    /\ memory' = c.memory
    /\ disk' = c.disk
    /\ has_disk' = c.has_disk

\* CacheManager(cache_dir): a new manager; the files of the directory stay
NewManager(cache_dir) ==
    /\ last = NoCall
    /\ has_disk # cache_dir \/ memory # EmptyDict
    /\ SetCache([Cache EXCEPT !.memory = EmptyDict, !.has_disk = cache_dir])
    /\ removed_keys' = {}
    /\ last' = [op |-> "new"]
    /\ UNCHANGED time

\* manager.get(key, use_disk)
CacheGet(key, use_disk) ==
    /\ last = NoCall
    /\ \E r \in {manager_get(Cache, key, use_disk, time)} :
           /\ SetCache(r.cache)
           /\ last' = [op |-> "get", key |-> key, use_disk |-> use_disk,
                       value |-> r.value, disk_read |-> r.disk_read]
    /\ UNCHANGED <<time, removed_keys>>

\* manager.set(key, value, ttl, use_disk)
CacheSet(key, value, ttl, use_disk) ==
    /\ last = NoCall
    /\ SetCache(manager_set(Cache, key, value, ttl, use_disk, time))
    /\ removed_keys' = removed_keys \ {key}
    /\ last' = [op |-> "set", key |-> key, value |-> value, use_disk |-> use_disk]
    /\ UNCHANGED time

\* manager.delete(key)
CacheDelete(key) ==
    /\ last = NoCall
    /\ \E r \in {manager_delete(Cache, key)} :
           /\ SetCache(r.cache)
           /\ last' = [op |-> "delete", key |-> key, deleted |-> r.deleted]
    /\ removed_keys' = removed_keys \cup {key}
    /\ UNCHANGED time

\* manager.clear()
CacheClear ==
    /\ last = NoCall
    /\ SetCache(manager_clear(Cache))
    /\ removed_keys' = CacheKeys
    /\ last' = [op |-> "clear"]
    /\ UNCHANGED time

\* manager.memory.clear()
MemoryClear ==
    /\ last = NoCall
    /\ memory' = memory_clear(memory)
    /\ last' = [op |-> "memory.clear"]
    /\ UNCHANGED <<disk, has_disk, time, removed_keys>>

\* manager.memory.get(key)
MemoryGet(key) ==
    /\ last = NoCall
    /\ \E r \in {memory_get(memory, key, time)} :
           /\ memory' = r.cache
           /\ last' = [op |-> "memory.get", key |-> key, value |-> r.value,
                       stored |-> key \in DOMAIN memory]
    /\ UNCHANGED <<disk, has_disk, time, removed_keys>>

\* manager.disk.get(key)
DiskGet(key) ==
    /\ last = NoCall
    /\ has_disk
    /\ \E r \in {disk_get(disk, key, time)} :
           /\ disk' = r.cache
           /\ last' = [op |-> "disk.get", key |-> key, value |-> r.value,
                       stored |-> safe_key(key) \in DOMAIN disk]
    /\ UNCHANGED <<memory, has_disk, time, removed_keys>>

\* manager.cleanup()
CacheCleanup ==
    /\ last = NoCall
    /\ \E r \in {manager_cleanup(Cache, time)} :
           /\ SetCache(r.cache)
           /\ last' = [op |-> "cleanup", memory |-> r.memory, disk |-> r.disk]
    /\ UNCHANGED <<time, removed_keys>>

\* the clock advances between two calls
Tick ==
    /\ last = NoCall
    /\ time < MaxTime
    /\ time' = time + 1
    /\ UNCHANGED <<memory, disk, has_disk, removed_keys, last>>

CacheStep ==
    \/ \E cache_dir \in BOOLEAN : NewManager(cache_dir)
    \/ \E key \in CacheKeys, use_disk \in BOOLEAN : CacheGet(key, use_disk)
    \/ \E key \in CacheKeys, value \in CacheValues, ttl \in TtlArgs, use_disk \in BOOLEAN :
           CacheSet(key, value, ttl, use_disk)
    \/ \E key \in CacheKeys : CacheDelete(key)
    \/ CacheClear
    \/ MemoryClear
    \/ \E key \in CacheKeys : MemoryGet(key)
    \/ \E key \in CacheKeys : DiskGet(key)
    \/ CacheCleanup
    \/ Tick
    \/ Resume

NextCache ==
    CacheStep /\ UNCHANGED <<graphVars, linkerVars, sessionVars, threadVars, recallVars, writeVars>>

SpecCache == Init /\ [][NextCache]_vars

(* One manager, with the last set of each key on record *)

\* the keys of the lifetime runs: no two of them share a cache file
LifeKeys == {<<"a">>, <<"b">>}

\* the ttl arguments of the lifetime runs: None, or no time at all
LifeTtls == {<<>>, <<0>>}

\* manager.set(key, value, ttl, use_disk), noted as the last set of the key
LifeSet(key, value, ttl, use_disk) ==
    /\ CacheSet(key, value, ttl, use_disk)
    /\ writes' = Put(writes, key, [value |-> value, at |-> time, ttl |-> TtlOrDefault(ttl),
                                   use_disk |-> use_disk])

LifeStep ==
    \/ \E key \in LifeKeys, value \in CacheValues, ttl \in LifeTtls, use_disk \in BOOLEAN :
           LifeSet(key, value, ttl, use_disk)
    \/ \E key \in LifeKeys : CacheGet(key, TRUE) /\ UNCHANGED writes
    \/ NewManager(TRUE) /\ UNCHANGED writes
    \/ MemoryClear /\ UNCHANGED writes
    \/ Tick /\ UNCHANGED writes
    \/ Resume /\ UNCHANGED writes

NextLife == LifeStep /\ UNCHANGED <<graphVars, linkerVars, sessionVars, threadVars, recallVars>>

SpecLife == Init /\ [][NextLife]_vars

----------------------------------------------------------------------------
(* MemoryCache under several threads: each statement inside "with
   self._lock" is a step of its own *)

\* the thread th goes on with the local state l
SetThread(th, l) == threads' = [threads EXCEPT ![th] = l]

\* the first statement inside the lock, for each operation
FirstStep(op) ==
    CASE op = "get" -> "get_lookup"
      [] op = "set" -> "set_store"
      [] op = "delete" -> "delete_check"
      [] op = "clear" -> "clear_all"
      [] op = "cleanup" -> "cleanup_scan"

\* a lock that any thread may take at any time
CanAcquireAlways(l) == TRUE

\* threading.Lock: it is taken only when no thread holds it
CanAcquire(l) == l = None

\* the whole operation applied to the cache mem at clock reading t
Sequential(op, mem, key, value, t) ==
    CASE op = "get" -> [cache |-> memory_get(mem, key, t).cache,
                        result |-> memory_get(mem, key, t).value]
      [] op = "set" -> [cache |-> memory_set(mem, key, value, <<>>, t), result |-> None]
      [] op = "delete" -> [cache |-> memory_delete(mem, key).cache,
                           result |-> memory_delete(mem, key).deleted]
      [] op = "clear" -> [cache |-> memory_clear(mem), result |-> None]
      [] op = "cleanup" -> [cache |-> cleanup(mem, t).cache, result |-> cleanup(mem, t).removed]

\* a thread calls cache.get(key), cache.set(key, value), cache.delete(key),
\* cache.clear() or cache.cleanup()
ThreadCall(th, op, key, value) ==
    /\ threads[th].pc = "idle"
    /\ SetThread(th, [IdleThread EXCEPT !.pc = "acquire", !.op = op, !.key = key,
                                        !.value = value])
    /\ UNCHANGED <<memory, time, lock>>

\* with self._lock: __enter__
ThreadAcquire(th) ==
    /\ threads[th].pc = "acquire"
    /\ CanAcquire(lock)
    /\ lock' = th
    /\ SetThread(th, [threads[th] EXCEPT !.pc = FirstStep(threads[th].op),
                                         !.snap = memory, !.t = time])
    /\ UNCHANGED <<memory, time>>

\* get: entry = self._cache.get(key); if entry is None: return None
GetLookup(th) ==
    /\ threads[th].pc = "get_lookup"
    /\ IF threads[th].key \in DOMAIN memory
       THEN SetThread(th, [threads[th] EXCEPT !.pc = "get_expiry",
                                              !.entry = memory[threads[th].key]])
       ELSE SetThread(th, [threads[th] EXCEPT !.pc = "release", !.result = None])
    /\ UNCHANGED <<memory, time, lock>>

\* get: if time.time() - entry.timestamp > entry.ttl ... return entry.value
GetExpiry(th) ==
    /\ threads[th].pc = "get_expiry"
    /\ IF Expired(threads[th].entry, time)
       THEN SetThread(th, [threads[th] EXCEPT !.pc = "get_del", !.t = time])
       ELSE SetThread(th, [threads[th] EXCEPT !.pc = "release", !.t = time,
                                              !.result = threads[th].entry.value])
    /\ UNCHANGED <<memory, time, lock>>

\* get: del self._cache[key]; return None
GetDel(th) ==
    /\ threads[th].pc = "get_del"
    /\ IF threads[th].key \in DOMAIN memory
       THEN /\ memory' = Without(memory, threads[th].key)
            /\ SetThread(th, [threads[th] EXCEPT !.pc = "release", !.result = None])
       ELSE /\ memory' = memory
            /\ SetThread(th, [threads[th] EXCEPT !.pc = "release", !.exc = "KeyError"])
    /\ UNCHANGED <<time, lock>>

\* set: self._cache[key] = CacheEntry(value, time.time(), ttl)
SetStore(th) ==
    /\ threads[th].pc = "set_store"
    /\ memory' = Put(memory, threads[th].key,
                     CacheEntry(threads[th].value, time, TtlOrDefault(<<>>)))
    /\ SetThread(th, [threads[th] EXCEPT !.pc = "release", !.t = time])
    /\ UNCHANGED <<time, lock>>

\* delete: if key in self._cache ... return False
DeleteCheck(th) ==
    /\ threads[th].pc = "delete_check"
    /\ IF threads[th].key \in DOMAIN memory
       THEN SetThread(th, [threads[th] EXCEPT !.pc = "delete_del"])
       ELSE SetThread(th, [threads[th] EXCEPT !.pc = "release", !.result = FALSE])
    /\ UNCHANGED <<memory, time, lock>>

\* delete: del self._cache[key]; return True
DeleteDel(th) ==
    /\ threads[th].pc = "delete_del"
    /\ IF threads[th].key \in DOMAIN memory
       THEN /\ memory' = Without(memory, threads[th].key)
            /\ SetThread(th, [threads[th] EXCEPT !.pc = "release", !.result = TRUE])
       ELSE /\ memory' = memory
            /\ SetThread(th, [threads[th] EXCEPT !.pc = "release", !.exc = "KeyError"])
    /\ UNCHANGED <<time, lock>>

\* clear: self._cache.clear()
ClearAll(th) ==
    /\ threads[th].pc = "clear_all"
    /\ memory' = EmptyDict
    /\ SetThread(th, [threads[th] EXCEPT !.pc = "release"])
    /\ UNCHANGED <<time, lock>>

\* cleanup: now = time.time(); expired = [key for key, entry in ... if
\* now - entry.timestamp > entry.ttl]
CleanupScan(th) ==
    /\ threads[th].pc = "cleanup_scan"
    /\ \E expired \in {{k \in DOMAIN memory : Expired(memory[k], time)}} :
           SetThread(th, [threads[th] EXCEPT !.pc = "cleanup_del", !.t = time,
                                             !.pending = expired,
                                             !.count = Cardinality(expired)])
    /\ UNCHANGED <<memory, time, lock>>

\* cleanup: for key in expired: del self._cache[key]; return len(expired)
CleanupDel(th) ==
    /\ threads[th].pc = "cleanup_del"
    /\ IF threads[th].pending = {}
       THEN /\ memory' = memory
            /\ SetThread(th, [threads[th] EXCEPT !.pc = "release",
                                                 !.result = threads[th].count])
       ELSE \E k \in threads[th].pending :
                IF k \in DOMAIN memory
                THEN /\ memory' = Without(memory, k)
                     /\ SetThread(th, [threads[th] EXCEPT !.pending = @ \ {k}])
                ELSE /\ memory' = memory
                     /\ SetThread(th, [threads[th] EXCEPT !.pc = "release", !.pending = {},
                                                          !.exc = "KeyError"])
    /\ UNCHANGED <<time, lock>>

\* with self._lock: __exit__, on return and on an exception alike
ThreadRelease(th) ==
    /\ threads[th].pc = "release"
    /\ lock' = None
    /\ SetThread(th, IdleThread)
    /\ UNCHANGED <<memory, time>>

\* the clock advances, inside a critical section or outside
ThreadTick == Tick /\ UNCHANGED <<lock, threads>>

ThreadStep ==
    \/ \E th \in Threads, key \in ThreadKeys :
           \/ ThreadCall(th, "get", key, None)
           \/ ThreadCall(th, "delete", key, None)
           \/ \E value \in CacheValues : ThreadCall(th, "set", key, value)
    \/ \E th \in Threads : ThreadCall(th, "clear", <<>>, None)
    \/ \E th \in Threads : ThreadCall(th, "cleanup", <<>>, None)
    \/ \E th \in Threads : ThreadAcquire(th)
    \/ \E th \in Threads : GetLookup(th)
    \/ \E th \in Threads : GetExpiry(th)
    \/ \E th \in Threads : GetDel(th)
    \/ \E th \in Threads : SetStore(th)
    \/ \E th \in Threads : DeleteCheck(th)
    \/ \E th \in Threads : DeleteDel(th)
    \/ \E th \in Threads : ClearAll(th)
    \/ \E th \in Threads : CleanupScan(th)
    \/ \E th \in Threads : CleanupDel(th)
    \/ \E th \in Threads : ThreadRelease(th)

NextThreads ==
    \/ ThreadStep /\ UNCHANGED <<graphVars, linkerVars, sessionVars, last, disk, has_disk,
                                 removed_keys, recallVars, writeVars>>
    \/ ThreadTick /\ UNCHANGED <<graphVars, linkerVars, sessionVars, recallVars, writeVars>>

SpecThreads == Init /\ [][NextThreads]_vars

----------------------------------------------------------------------------
(* One CacheManager with a disk tier under several threads. The manager takes
   no lock of its own: each call it makes on a tier is a step, and the steps
   of two threads interleave. A thread's value holds the value it read from
   the disk and its result what the memory tier answered. Its pending holds
   the key while no set of the key has been issued: for a delete since before
   it was called, for a get since a delete that returned before it was
   called. *)

\* the key the threads share
SharedKeys == {<<"a">>}

\* a thread calls manager.get(key)
SharedGet(th, key) ==
    /\ threads[th].pc = "idle"
    /\ SetThread(th, [IdleThread EXCEPT !.pc = "mgr_get_memory", !.op = "get", !.key = key,
                                        !.pending = removed_keys \cap {key}])
    /\ UNCHANGED <<memory, disk, removed_keys, time, last>>

\* a thread calls manager.set(key, value, use_disk=True); the calls of the
\* key that are running are no longer calls with no set of the key
SharedSet(th, key, value) ==
    /\ threads[th].pc = "idle"
    /\ threads' = [x \in Threads |->
                      IF x = th
                      THEN [IdleThread EXCEPT !.pc = "mgr_set_memory", !.op = "set",
                                              !.key = key, !.value = value]
                      ELSE IF threads[x].key = key
                      THEN [threads[x] EXCEPT !.pending = {}]
                      ELSE threads[x]]
    /\ removed_keys' = removed_keys \ {key}
    /\ UNCHANGED <<memory, disk, time, last>>

\* a thread calls manager.delete(key); a set of the key that is running was
\* not issued before it
SharedDelete(th, key) ==
    /\ threads[th].pc = "idle"
    /\ SetThread(th, [IdleThread EXCEPT
                         !.pc = "mgr_delete_memory", !.op = "delete", !.key = key,
                         !.pending = IF \E x \in Threads : /\ threads[x].op = "set"
                                                           /\ threads[x].key = key
                                     THEN {} ELSE {key}])
    /\ UNCHANGED <<memory, disk, removed_keys, time, last>>

\* get: value = self.memory.get(key); if value is not None: return value
MgrGetMemory(th) ==
    /\ threads[th].pc = "mgr_get_memory"
    /\ \E m \in {memory_get(memory, threads[th].key, time)} :
           /\ memory' = m.cache
           /\ SetThread(th, [threads[th] EXCEPT
                                !.pc = IF m.value = None /\ has_disk THEN "mgr_get_disk"
                                       ELSE "mgr_return",
                                !.result = m.value])
    /\ UNCHANGED <<disk, removed_keys, time, last>>

\* get: value = self.disk.get(key); if value is not None: ...; return None
MgrGetDisk(th) ==
    /\ threads[th].pc = "mgr_get_disk"
    /\ \E d \in {disk_get(disk, threads[th].key, time)} :
           /\ disk' = d.cache
           /\ SetThread(th, [threads[th] EXCEPT
                                !.pc = IF d.value = None THEN "mgr_return"
                                       ELSE "mgr_get_promote",
                                !.value = d.value])
    /\ UNCHANGED <<memory, removed_keys, time, last>>

\* get: self.memory.set(key, value); return value
MgrGetPromote(th) ==
    /\ threads[th].pc = "mgr_get_promote"
    /\ memory' = memory_set(memory, threads[th].key, threads[th].value, <<>>, time)
    /\ SetThread(th, [threads[th] EXCEPT !.pc = "mgr_return", !.result = threads[th].value])
    /\ UNCHANGED <<disk, removed_keys, time, last>>

\* set: self.memory.set(key, value, ttl)
MgrSetMemory(th) ==
    /\ threads[th].pc = "mgr_set_memory"
    /\ memory' = memory_set(memory, threads[th].key, threads[th].value, <<>>, time)
    /\ SetThread(th, [threads[th] EXCEPT !.pc = IF has_disk THEN "mgr_set_disk"
                                                ELSE "mgr_return"])
    /\ UNCHANGED <<disk, removed_keys, time, last>>

\* set: self.disk.set(key, value, ttl)
MgrSetDisk(th) ==
    /\ threads[th].pc = "mgr_set_disk"
    /\ disk' = disk_set(disk, threads[th].key, threads[th].value, <<>>, time)
    /\ SetThread(th, [threads[th] EXCEPT !.pc = "mgr_return"])
    /\ UNCHANGED <<memory, removed_keys, time, last>>

\* delete: mem_deleted = self.memory.delete(key)
MgrDeleteMemory(th) ==
    /\ threads[th].pc = "mgr_delete_memory"
    /\ \E m \in {memory_delete(memory, threads[th].key)} :
           /\ memory' = m.cache
           /\ SetThread(th, [threads[th] EXCEPT !.pc = "mgr_delete_disk",
                                                !.result = m.deleted])
    /\ UNCHANGED <<disk, removed_keys, time, last>>

\* delete: disk_deleted = self.disk.delete(key) if self.disk else False
MgrDeleteDisk(th) ==
    /\ threads[th].pc = "mgr_delete_disk"
    /\ \E d \in {IF has_disk THEN disk_delete(disk, threads[th].key)
                 ELSE [cache |-> disk, deleted |-> FALSE]} :
           /\ disk' = d.cache
           /\ SetThread(th, [threads[th] EXCEPT !.pc = "mgr_return",
                                                !.result = threads[th].result \/ d.deleted])
    /\ UNCHANGED <<memory, removed_keys, time, last>>

\* the call returns to the thread that made it
MgrReturn(th) ==
    /\ threads[th].pc = "mgr_return"
    /\ last' = [op |-> threads[th].op, key |-> threads[th].key, thread |-> th,
                value |-> IF threads[th].op = "set" THEN None ELSE threads[th].result,
                after_delete |-> threads[th].op = "get" /\ threads[th].pending # {}]
    /\ removed_keys' = IF threads[th].op = "delete" /\ threads[th].pending # {}
                       THEN removed_keys \cup {threads[th].key}
                       ELSE removed_keys
    /\ SetThread(th, IdleThread)
    /\ UNCHANGED <<memory, disk, time>>

\* the clock advances between two steps of the threads
SharedTick ==
    /\ time < MaxTime
    /\ time' = time + 1
    /\ UNCHANGED <<memory, disk, removed_keys, last, threads>>

SharedStep ==
    \/ \E th \in Threads, key \in SharedKeys : SharedGet(th, key)
    \/ \E th \in Threads, key \in SharedKeys, value \in CacheValues : SharedSet(th, key, value)
    \/ \E th \in Threads, key \in SharedKeys : SharedDelete(th, key)
    \/ \E th \in Threads : MgrGetMemory(th)
    \/ \E th \in Threads : MgrGetDisk(th)
    \/ \E th \in Threads : MgrGetPromote(th)
    \/ \E th \in Threads : MgrSetMemory(th)
    \/ \E th \in Threads : MgrSetDisk(th)
    \/ \E th \in Threads : MgrDeleteMemory(th)
    \/ \E th \in Threads : MgrDeleteDisk(th)
    \/ \E th \in Threads : MgrReturn(th)
    \/ SharedTick

NextShared ==
    SharedStep /\ UNCHANGED <<graphVars, linkerVars, sessionVars, has_disk, lock, recallVars,
                              writeVars>>

SpecShared == Init /\ [][NextShared]_vars

----------------------------------------------------------------------------
(* RecallOperation (recall_operation.py). A string is the sequence of its
   characters. *)

\* str.lower on one character
LowerChar(c) == IF c = "A" THEN "a" ELSE IF c = "B" THEN "b" ELSE c

\* str.lower
Lower(str) == [i \in 1..Len(str) |-> LowerChar(str[i])]

\* str.split(): the words between the blanks
RECURSIVE Split(_)
Split(str) ==
    IF str = <<>> THEN {}
    ELSE IF Head(str) = " " THEN Split(Tail(str))
    ELSE LET n == IF \E i \in 1..Len(str) : str[i] = " "
                  THEN (CHOOSE i \in 1..Len(str) :
                            str[i] = " " /\ \A j \in 1..(i - 1) : str[j] # " ") - 1
                  ELSE Len(str)
         IN {SubSeq(str, 1, n)} \cup Split(SubSeq(str, n + 1, Len(str)))

\* "term in content": term is a substring of content
IsSubstring(term, content) ==
    \E i \in 0..(Len(content) - Len(term)) : SubSeq(content, i + 1, i + Len(term)) = term

\* "not query or not query.strip()"
Blank(query) == \A i \in 1..Len(query) : query[i] = " "

\* RecallOperation._expand_query
expand_query(query) ==
    LET terms == Split(Lower(query)) IN
    terms \cup UNION {QUERY_SYNONYMS[key] : key \in
                         {k \in DOMAIN QUERY_SYNONYMS :
                              \E term \in terms : term = k \/ term \in QUERY_SYNONYMS[k]}}

\* the score of a chunk: the number of expanded terms in its lowercased content
Score(doc, query_terms) ==
    Cardinality({term \in query_terms : IsSubstring(term, Lower(doc.content))})

\* matches.sort(key=score, reverse=True): a stable sort, so chunks of equal
\* score stay in the order of list_chunks; k is the highest score there can be
RECURSIVE SortByScore(_, _, _, _)
SortByScore(store, ids, query_terms, k) ==
    IF k = 0 THEN <<>>
    ELSE SelectSeq(ids, LAMBDA c : Score(store[c], query_terms) = k)
             \o SortByScore(store, ids, query_terms, k - 1)

\* the sum of the confidences of the chunks of a list
RECURSIVE SumConfidence(_, _)
SumConfidence(store, ids) ==
    IF ids = <<>> THEN 0 ELSE store[Head(ids)].confidence + SumConfidence(store, Tail(ids))

\* a RecallResult; the confidence is the fraction num / den
RecallResult(answer, num, den, source_chunks, iterations_used) ==
    [answer |-> answer, confidence |-> [num |-> num, den |-> den],
     source_chunks |-> source_chunks, iterations_used |-> iterations_used, exc |-> None]

\* the matches without the cut at max_results
TopAll(matches, max_results) == matches

\* matches[:max_results]
Top(matches, max_results) ==
    SubSeq(matches, 1, IF max_results < Len(matches) THEN max_results ELSE Len(matches))

\* RecallOperation._basic_search; conversation_id is None or a conversation
basic_search(store, query, conversation_id, max_results) ==
    LET chunk_ids == IF conversation_id # None
                     THEN SortedList({c \in DOMAIN store :
                                         store[c].conversation_id = conversation_id})
                     ELSE SortedList(DOMAIN store)
        query_terms == expand_query(query)
        matches == SortByScore(store, chunk_ids, query_terms, Cardinality(query_terms))
        top_matches == Top(matches, max_results)
    IN  IF top_matches = <<>>
        THEN RecallResult("No relevant memories found", 0, 1, <<>>, 0)
        ELSE RecallResult([i \in 1..Len(top_matches) |-> store[top_matches[i]].content],
                          SumConfidence(store, top_matches), Len(top_matches), top_matches, 1)

\* "except Exception" that catches RuntimeError only
CaughtRuntimeOnly(e) == e = "RuntimeError"

\* "except Exception": the errors of the session, of the store and of the
\* interpreter that derive from Exception
Caught(e) ==
    e \in {"SandboxViolation", "MaxIterationsError", "TimeoutError", "RuntimeError", "OSError"}

\* RecallOperation._extract_source_chunks: the strings of the session state
\* that start with "chunk-"; the state of the modelled sessions holds numbers
extract_source_chunks(s) == <<>>

\* RecallOperation._calculate_confidence, as the fraction num / den
calculate_confidence(store, source_chunks) ==
    IF source_chunks = <<>> THEN [num |-> 0, den |-> 1]
    ELSE LET found == SelectSeq(source_chunks, LAMBDA c : c \in DOMAIN store) IN
         IF found = <<>> THEN [num |-> 1, den |-> 2]
         ELSE [num |-> SumConfidence(store, found), den |-> Len(found)]

\* RecallOperation._repl_retrieval; raised is the exception that a call inside
\* the try block raises (None when none does)
repl_retrieval(store, s, query, conversation_id, max_results, raised) ==
    IF raised # None
    THEN IF Caught(raised)
         THEN basic_search(store, query, conversation_id, max_results)
         ELSE [RecallResult(None, 0, 1, <<>>, 0) EXCEPT !.exc = raised]
    ELSE IF retrieve(s) = None
    THEN RecallResult("No relevant memories found", 0, 1, <<>>, s.iteration_count)
    ELSE [RecallResult(retrieve(s), 0, 1, extract_source_chunks(s), s.iteration_count)
              EXCEPT !.confidence = calculate_confidence(store, extract_source_chunks(s))]

\* RecallOperation.recall; has_client: an llm_client was given
recall(store, s, has_client, query, conversation_id, max_results, raised) ==
    IF query = <<>> \/ Blank(query) THEN RecallResult("No query provided", 0, 1, <<>>, 0)
    ELSE IF ~has_client THEN basic_search(store, query, conversation_id, max_results)
    ELSE repl_retrieval(store, s, query, conversation_id, max_results, raised)

(* The caller of recall *)

\* store.create_chunk(content, conversation_id=..., confidence=...)
StoreChunk(conversation_id, content, confidence) ==
    /\ last = NoCall
    /\ Cardinality(DOMAIN docs) + 1 \in DocIds
    /\ docs' = Put(docs, Cardinality(DOMAIN docs) + 1,
                   [conversation_id |-> conversation_id, content |-> content,
                    confidence |-> confidence])
    /\ UNCHANGED <<last, sessionVars>>

\* recall.recall(query, conversation_id, max_results) on a RecallOperation built
\* with or without an llm_client
Recall(has_client, query, conversation_id, max_results, raised) ==
    /\ last = NoCall
    /\ has_client \/ raised = None
    /\ \E r \in {recall(docs, Session, has_client, query, conversation_id, max_results, raised)} :
           last' = [op |-> "recall", has_client |-> has_client, query |-> query,
                    conversation_id |-> conversation_id, max_results |-> max_results,
                    raised |-> raised, result |-> r]
    /\ UNCHANGED <<docs, sessionVars>>

----------------------------------------------------------------------------
(* ReasonOperation (reason_operation.py) *)

\* the queries handed to reason: " ", "A" and "z"
ReasonQueries == {<<" ">>, <<"A">>, <<"z">>}

\* the context_chunks handed to reason: None, or a list of ids of which 3 is
\* the id of no chunk
ContextChunks == {None, <<3>>, <<1>>, <<1, 3, 2>>}

\* the analysis_type handed to reason; "other" is none of the four modes
AnalysisTypes == {"synthesis", "comparison", "pattern", "gap", "other"}

\* a ReasonResult; the confidence is the fraction num / den
ReasonResult(synthesis, num, den, source_chunks) ==
    [synthesis |-> synthesis, confidence |-> [num |-> num, den |-> den],
     source_chunks |-> source_chunks, exc |-> None]

\* ReasonOperation._gather_evidence: the chunks of the list that exist, under
\* the key "chunks" of a dictionary that also has the keys "tags" and "types"
gather_evidence(store, chunk_ids) ==
    [chunks |-> SelectSeq(chunk_ids, LAMBDA c : c \in DOMAIN store)]

\* ReasonOperation._search_evidence
search_evidence(store, s, has_client, query) ==
    IF ~has_client
    THEN gather_evidence(store, Top(SortedList(DOMAIN store), 10))
    ELSE gather_evidence(store, recall(store, s, TRUE, query, None, 10, None).source_chunks)

\* "if not evidence": the dictionary _gather_evidence returns has three keys
\* whatever it found
NoEvidence(evidence) == DOMAIN evidence = {}

\* ReasonOperation._synthesize
synthesize(store, evidence) ==
    IF evidence.chunks = <<>> THEN ReasonResult("No content to synthesize", 0, 1, <<>>)
    ELSE ReasonResult("synthesis", SumConfidence(store, evidence.chunks),
                      Len(evidence.chunks), evidence.chunks)

\* ReasonOperation._compare
compare(store, evidence) ==
    IF Len(evidence.chunks) < 2
    THEN ReasonResult("Need at least 2 items to compare", 0, 1, <<>>)
    ELSE ReasonResult("comparison", 7, 10, evidence.chunks)

\* ReasonOperation._find_patterns
find_patterns(store, evidence) == ReasonResult("patterns", 75, 100, evidence.chunks)

\* ReasonOperation._identify_gaps
identify_gaps(store, evidence) == ReasonResult("gaps", 6, 10, evidence.chunks)

\* ReasonOperation.reason; context_chunks is None or a list of chunk ids
reason(store, s, has_client, query, context_chunks, analysis_type) ==
    IF query = <<>> \/ Blank(query) THEN ReasonResult("No query provided", 0, 1, <<>>)
    ELSE LET evidence == IF context_chunks # None /\ context_chunks # <<>>
                         THEN gather_evidence(store, context_chunks)
                         ELSE search_evidence(store, s, has_client, query)
         IN  IF NoEvidence(evidence)
             THEN ReasonResult("No relevant evidence found for analysis", 0, 1, <<>>)
             ELSE CASE analysis_type = "synthesis" -> synthesize(store, evidence)
                    [] analysis_type = "comparison" -> compare(store, evidence)
                    [] analysis_type = "pattern" -> find_patterns(store, evidence)
                    [] analysis_type = "gap" -> identify_gaps(store, evidence)
                    [] OTHER -> synthesize(store, evidence)

\* reason.reason(query, context_chunks, analysis_type) on a ReasonOperation
\* built with or without an llm_client
Reason(has_client, query, context_chunks, analysis_type) ==
    /\ last = NoCall
    /\ \E r \in {reason(docs, Session, has_client, query, context_chunks, analysis_type)} :
           last' = [op |-> "reason", has_client |-> has_client, query |-> query,
                    context_chunks |-> context_chunks, analysis_type |-> analysis_type,
                    result |-> r]
    /\ UNCHANGED <<docs, sessionVars>>

\* the session of the RecallOperation reaches its final answer
SessionAnswers ==
    /\ Execute(<<[op |-> "FINAL", answer |-> "a1"]>>, FALSE)
    /\ UNCHANGED docs

RecallStep ==
    \/ \E c \in Convs, content \in Contents, confidence \in Confidences :
           StoreChunk(c, content, confidence)
    \/ \E has_client \in BOOLEAN, query \in Queries, c \in Convs \cup {None},
          max_results \in ResultLimits, raised \in SessionErrors \cup {None} :
           Recall(has_client, query, c, max_results, raised)
    \/ \E has_client \in BOOLEAN, query \in ReasonQueries, context_chunks \in ContextChunks,
          analysis_type \in AnalysisTypes :
           Reason(has_client, query, context_chunks, analysis_type)
    \/ SessionAnswers
    \/ Resume /\ UNCHANGED docs

NextRecall == RecallStep /\ UNCHANGED <<graphVars, linkerVars, cacheVars, threadVars, writeVars>>

SpecRecall == Init /\ [][NextRecall]_vars

----------------------------------------------------------------------------
(* Claims about the link graph (SpecGraph)                                 *)

\* nodes within k forward edges of the nodes of S, by the edge relation itself
RECURSIVE ReachWithin(_, _, _)
ReachWithin(g, S, k) ==
    IF k = 0 THEN S
    ELSE ReachWithin(g, S \cup UNION {get_outgoing_all(g, n) : n \in S}, k - 1)

\* C1: add_link is idempotent. From every reachable graph and for every triple
\* (from, to, type), applying add_link twice gives the same forward and reverse
\* maps, and the same get_outgoing / get_incoming answers (with and without a
\* type, for every node), as applying it once.
C1_AddLinkIdempotent ==
    \A from_id \in GraphIds, to_id \in GraphIds, lt \in GraphTypes :
        LET once == add_link(Graph, from_id, to_id, lt)
            twice == add_link(once, from_id, to_id, lt)
        IN /\ twice.forward = once.forward
           /\ twice.reverse = once.reverse
           /\ \A n \in GraphIds :
                  /\ get_outgoing_all(twice, n) = get_outgoing_all(once, n)
                  /\ get_incoming_all(twice, n) = get_incoming_all(once, n)
                  /\ \A t \in GraphTypes :
                         /\ get_outgoing(twice, n, t) = get_outgoing(once, n, t)
                         /\ get_incoming(twice, n, t) = get_incoming(once, n, t)

\* an add_link call whose triple was already stored has just returned
C1_Witness ==
    /\ last.op = "add_link"
    /\ last.repeat
    /\ index = Saved(Graph)

\* C3: every node traverse(start, d) returns lies within d forward edges of start,
\* and traverse(start, 0) returns nothing.
C3_TraverseDepthBound ==
    last.op = "traverse" =>
        /\ Range(last.result) \subseteq ReachWithin(Graph, {last.start_id}, last.max_depth)
        /\ last.max_depth = 0 => last.result = <<>>

\* a traverse returned some nodes and left out a node that lies farther away
C3_Witness ==
    /\ last.op = "traverse"
    /\ last.max_depth >= 1
    /\ last.result # <<>>
    /\ \E n \in GraphIds :
           /\ n \notin ReachWithin(Graph, {last.start_id}, last.max_depth)
           /\ n \in ReachWithin(Graph, {last.start_id}, Cardinality(GraphIds))

\* C4: on the same graph, traverse(start, d + 1, link_types) returns every node
\* that traverse(start, d, link_types) returned, whatever the iteration order.
C4_TraverseMonotone ==
    last.op = "traverse" =>
        \A ord \in Orders(GraphIds) :
            Range(last.result) \subseteq
                Range(traverse(Graph, last.start_id, last.max_depth + 1, last.link_types, ord))

\* a traverse returned some nodes and one hop more returns strictly more
C4_Witness ==
    /\ last.op = "traverse"
    /\ last.result # <<>>
    /\ \E ord \in Orders(GraphIds) :
           Range(traverse(Graph, last.start_id, last.max_depth + 1, last.link_types, ord))
               # Range(last.result)

----------------------------------------------------------------------------
(* Claims about the auto-linker (SpecLinker)                               *)

SameConversation(a, b) == chunks[a].conversation_id = chunks[b].conversation_id

C5_NoRelatedWithinConversation ==
    \A a \in DOMAIN chunks, b \in DOMAIN chunks :
        (a # b /\ SameConversation(a, b)) =>
            /\ ~Contains(chunks[a].links.related_to, b)
            /\ ~Contains(held[a].links.related_to, b)
            /\ ~Contains(get_outgoing(Graph, a, "related_to"), b)
            /\ ~Contains(get_incoming(Graph, a, "related_to"), b)
            /\ ~Contains(get_outgoing(index, a, "related_to"), b)

\* two linked chunks of one conversation share a tag and are joined by context_of,
\* and the tag pass has joined one of them to a chunk of another conversation
C5_Witness ==
    \E a \in DOMAIN chunks, b \in DOMAIN chunks, c \in DOMAIN chunks :
        /\ a # b
        /\ SameConversation(a, b)
        /\ chunks[a].tags \cap chunks[b].tags # {}
        /\ held[a].linked
        /\ held[b].linked
        /\ Contains(chunks[a].links.context_of, b)
        /\ Contains(chunks[b].links.context_of, a)
        /\ Contains(chunks[a].links.related_to, c)

----------------------------------------------------------------------------
(* Claims about one add_link *)

\* C15: one add_link(from, to, type) adds to to the forward list of from under
\* type and from to the reverse list of to under type_reverse, and nothing else:
\* every other list, forward or reverse, is as before, so that from does not
\* enter get_outgoing(to, type) and to does not enter get_incoming(from, type).
C15_AddLinkFrame ==
    \A from_id \in GraphIds, to_id \in GraphIds, lt \in GraphTypes :
        LET after == add_link(Graph, from_id, to_id, lt) IN
        /\ \A n \in GraphIds, t \in GraphTypes :
               /\ IF n = from_id /\ t = lt
                  THEN Range(get_outgoing(after, n, t)) =
                           Range(get_outgoing(Graph, n, t)) \cup {to_id}
                  ELSE get_outgoing(after, n, t) = get_outgoing(Graph, n, t)
               /\ IF n = to_id /\ t = lt
                  THEN Range(get_incoming(after, n, t)) =
                           Range(get_incoming(Graph, n, t)) \cup {from_id}
                  ELSE get_incoming(after, n, t) = get_incoming(Graph, n, t)
        /\ \A n \in DOMAIN after.forward : DOMAIN after.forward[n] \subseteq GraphTypes
        /\ \A n \in DOMAIN after.reverse :
               DOMAIN after.reverse[n] \subseteq {reverse_type(t) : t \in GraphTypes}
        /\ from_id # to_id =>
               /\ Contains(get_outgoing(after, to_id, lt), from_id)
                      <=> Contains(get_outgoing(Graph, to_id, lt), from_id)
               /\ Contains(get_incoming(after, from_id, lt), to_id)
                      <=> Contains(get_incoming(Graph, from_id, lt), to_id)

\* a new link a -> b was just stored, and b has no link of that type back to a
C15_Witness ==
    /\ last.op = "add_link" /\ ~last.repeat
    /\ Contains(get_outgoing(Graph, "a", "follows"), "b")
    /\ Contains(get_incoming(Graph, "b", "follows"), "a")
    /\ ~Contains(get_outgoing(Graph, "b", "follows"), "a")
    /\ ~Contains(get_incoming(Graph, "a", "follows"), "b")

----------------
(* Claims about the REPL session (SpecSession)                             *)

\* the budget of the boundary tests, REPLSession(max_cost_usd = 0.004), in
\* thousandths of a dollar
max_cost_usd == 4

\* C6: a session configured with max_cost_usd = X never holds a total_cost
\* above X: a call whose cost would take it past X is rejected with a budget
\* error before its cost is added.
C6_TotalCostWithinBudget == total_cost <= max_cost_usd

\* C7: between resets the FINAL primitive returns at most once; its first call
\* records the answer and completes the session; every later call, in the same
\* execute or in a later one, raises RuntimeError, and result stays the first answer.
C7_FinalAtMostOnce ==
    /\ hist.finals <= 1
    /\ hist.finals = 1 => complete /\ result = hist.first_answer /\ result \in Answers
    /\ hist.finals = 0 => ~complete /\ result = None
    /\ last.op = "execute" /\ last.at = "FINAL" =>
           last.exc = "RuntimeError" /\ hist.finals = 1
    /\ last.op = "execute" /\ last.was_complete =>
           last.exc = "RuntimeError" /\ result = hist.first_answer

\* a second FINAL in the execute that made the first one raised, and the first answer stands
C7_Witness ==
    /\ last.op = "execute" /\ ~last.was_complete
    /\ last.at = "FINAL" /\ last.exc = "RuntimeError"
    /\ complete /\ result = "a1" /\ hist.first_answer = "a1"

\* C8: retrieve returns None while no FINAL has fired since the last reset and
\* the answer of the first FINAL afterwards, and it changes nothing of the session.
C8_RetrieveAnswer ==
    /\ [](last.op = "retrieve" =>
             last.value = IF hist.finals = 0 THEN None ELSE hist.first_answer)
    /\ [][last'.op = "retrieve" => UNCHANGED sessionVars]_vars

\* retrieve has returned a recorded answer
C8_Witness ==
    /\ last.op = "retrieve"
    /\ hist.finals = 1
    /\ last.value = "a2"
    /\ iteration_count > 0

\* C9: on a completed session every execute, empty code included, raises
\* RuntimeError from its own first test, runs nothing and changes no field;
\* only reset takes the session out of Completed.
C9_CompletedTerminal ==
    /\ [](last.op = "execute" /\ last.was_complete =>
             /\ last.exc = "RuntimeError"
             /\ last.at = "execute"
             /\ ~last.changed)
    /\ [][complete /\ ~complete' => last'.op = "reset"]_vars

\* empty code was handed to a completed session, and refused
C9_Witness ==
    /\ last.op = "execute" /\ last.was_complete /\ last.empty
    /\ last.exc = "RuntimeError"
    /\ complete

\* C10: after reset the session equals a newly built one, field by field, and
\* answers every execute as a newly built one does.
C10_ResetFresh ==
    last.op = "reset" =>
        /\ Fields(Session) = Fields(NewSession)
        /\ iteration_count = 0 /\ total_cost = 0 /\ ~complete /\ result = None
        /\ output = <<>> /\ stderr = <<>>
        /\ DOMAIN namespace = {} /\ DOMAIN state = {}
        /\ \A code \in Programs, slow \in BOOLEAN :
               execute(Session, code, slow) = execute(NewSession, code, slow)

\* reset was called on a completed session that had bound names, made queries and captured output
C10_Witness ==
    /\ last.op = "reset"
    /\ last.was_complete /\ last.was_bound /\ last.was_used

\* C11: between resets llm_client.complete is reached by at most max_iterations
\* llm_query calls: the calls up to the limit reach it, and every call past the
\* limit raises MaxIterationsError without reaching it and without adding to total_cost.
C11_IterationBudget ==
    /\ hist.provider_calls <= max_iterations
    /\ hist.provider_calls =
           IF hist.llm_calls <= max_iterations THEN hist.llm_calls ELSE max_iterations
    /\ hist.llm_calls >= max_iterations =>
           \A response \in Responses :
               LET r == llm_query_wrapper(Session, response) IN
                   /\ r.exc = "MaxIterationsError"
                   /\ r.s.total_cost = total_cost
                   /\ r.s.hist.provider_calls = hist.provider_calls
    /\ last.op = "execute" /\ last.exc = "MaxIterationsError" =>
           hist.llm_calls > max_iterations

\* a query past the limit was refused after the provider had been paid max_iterations times
C11_Witness ==
    /\ last.op = "execute" /\ last.exc = "MaxIterationsError"
    /\ hist.provider_calls = max_iterations
    /\ total_cost > 0

\* C12: total_cost equals the sum of the cost_usd values reported by the
\* responses of the llm_query calls that returned since the last reset.
C12_CostIsSumOfReported == total_cost = hist.reported_cost

\* C13: on an active session an execute whose code imports a module of the deny
\* list raises SandboxViolation before any of the code runs, and changes no field.
C13_ViolationBeforeExecution ==
    last.op = "execute" /\ last.denied /\ ~last.was_complete =>
        last.exc = "SandboxViolation" /\ ~last.changed /\ ~complete

\* the resource errors of execute
BudgetErrors == {"MaxIterationsError", "CostBudgetExceededError", "TimeoutError"}

\* the session refuses code as already complete
RefusedAsComplete(s, code) ==
    LET r == execute(s, code, FALSE) IN r.exc = "RuntimeError" /\ r.at = "execute"

\* C14 as stated: after an execute that raised a resource error the session is
\* Active, keeps its counters and bound names, and accepts a later execute.
C14_ActiveAfterBudgetError ==
    last.op = "execute" /\ last.exc \in BudgetErrors =>
        /\ ~complete
        /\ last.retained
        /\ \A code \in Programs : ~RefusedAsComplete(Session, code)

\* C14 as amended: an execute that raised a resource error took nothing back,
\* and left the session Completed exactly when FINAL fired in that same call;
\* when it did not, the session is Active and accepts a later execute.
C14_NoResetAfterBudgetError ==
    last.op = "execute" /\ last.exc \in BudgetErrors =>
        /\ last.retained
        /\ complete = last.final_fired
        /\ ~last.final_fired =>
               \A code \in Programs : ~RefusedAsComplete(Session, code)

\* a query past the limit was refused on a session with bound names and paid
\* queries, and the session is still Active with all of them
C14_Witness ==
    /\ last.op = "execute" /\ last.exc = "MaxIterationsError"
    /\ ~complete
    /\ "x" \in DOMAIN namespace /\ "x" \in DOMAIN state
    /\ total_cost > 0 /\ iteration_count > max_iterations


----------------------------------------------------------------------------
(* Claims about the cache *)

\* the tier-1 entry of key is there and has not expired at time t
MemoryLive(mem, key, t) == key \in DOMAIN mem /\ ~Expired(mem[key], t)

\* the tier-2 entry of key is there and has not expired at time t
DiskLive(files, key, t) == safe_key(key) \in DOMAIN files /\ ~Expired(files[safe_key(key)], t)

\* C16: CacheManager.get(key) consults tier 1 first and returns its unexpired
\* value without touching tier 2; on a tier-1 miss with tier 2 enabled and
\* holding an unexpired entry, it returns that value and, when it returns,
\* tier 1 holds an entry for key with the same value.
C16_GetTierOrder ==
    [][last'.op = "get" =>
          /\ MemoryLive(memory, last'.key, time) =>
                 /\ last'.value = memory[last'.key].value
                 /\ ~last'.disk_read
                 /\ disk' = disk
          /\ (/\ ~MemoryLive(memory, last'.key, time)
              /\ last'.use_disk
              /\ has_disk
              /\ DiskLive(disk, last'.key, time)) =>
                 /\ last'.value = disk[safe_key(last'.key)].value
                 /\ last'.key \in DOMAIN memory'
                 /\ memory'[last'.key].value = last'.value]_vars

\* a get missed tier 1, found the value in tier 2 and promoted it
C16_Witness ==
    /\ last.op = "get"
    /\ last.disk_read
    /\ last.value # None
    /\ last.key \in DOMAIN memory
    /\ memory[last.key].value = last.value

\* C17: CacheManager.set(key, value, ttl, use_disk) always writes the entry to
\* tier 1; it writes tier 2 only when use_disk is true and a disk tier is
\* configured, and otherwise leaves every tier-2 entry (including any existing
\* entry for the same key) unchanged.
C17_SetWritesTiers ==
    [][last'.op = "set" =>
          /\ last'.key \in DOMAIN memory'
          /\ memory'[last'.key].value = last'.value
          /\ memory'[last'.key].timestamp = time
          /\ last'.use_disk /\ has_disk =>
                 /\ safe_key(last'.key) \in DOMAIN disk'
                 /\ disk'[safe_key(last'.key)].value = last'.value
                 /\ disk'[safe_key(last'.key)].timestamp = time
          /\ ~(last'.use_disk /\ has_disk) => disk' = disk]_vars

\* a set without use_disk has left a tier-2 entry of the same key, holding
\* another value, as it was
C17_Witness ==
    /\ last.op = "set"
    /\ ~last.use_disk
    /\ has_disk
    /\ safe_key(last.key) \in DOMAIN disk
    /\ disk[safe_key(last.key)].value # last.value

\* C18: CacheManager.delete(key) removes key from both tiers and returns true
\* exactly when the key was present in at least one tier; in a single-threaded
\* run, after delete(key) (or clear()) and before any later set of that key,
\* get(key) is a miss in both tiers.
C18_DeleteThenMiss ==
    /\ [][last'.op = "delete" =>
              /\ last'.key \notin DOMAIN memory'
              /\ has_disk => safe_key(last'.key) \notin DOMAIN disk'
              /\ last'.deleted <=>
                     \/ last'.key \in DOMAIN memory
                     \/ has_disk /\ safe_key(last'.key) \in DOMAIN disk]_vars
    /\ [](\A key \in removed_keys :
              /\ memory_get(memory, key, time).value = None
              /\ has_disk => disk_get(disk, key, time).value = None
              /\ \A use_disk \in BOOLEAN : manager_get(Cache, key, use_disk, time).value = None)

\* C19: lazy expiry in MemoryCache and DiskCache: get(key) returns the stored
\* value exactly when an entry exists and now - timestamp <= ttl; when
\* now - timestamp > ttl it returns a miss and removes that entry; no entry is
\* ever returned after its own TTL has elapsed, whether or not cleanup() has run.
C19_LazyExpiry ==
    [][/\ last'.op = "memory.get" =>
              /\ last'.value # None <=>
                     /\ last'.key \in DOMAIN memory
                     /\ time - memory[last'.key].timestamp <= memory[last'.key].ttl
              /\ last'.value # None => last'.value = memory[last'.key].value
              /\ (/\ last'.key \in DOMAIN memory
                  /\ time - memory[last'.key].timestamp > memory[last'.key].ttl) =>
                     last'.key \notin DOMAIN memory'
       /\ last'.op = "disk.get" =>
              /\ last'.value # None <=>
                     /\ safe_key(last'.key) \in DOMAIN disk
                     /\ time - disk[safe_key(last'.key)].timestamp <= disk[safe_key(last'.key)].ttl
              /\ last'.value # None => last'.value = disk[safe_key(last'.key)].value
              /\ (/\ safe_key(last'.key) \in DOMAIN disk
                  /\ time - disk[safe_key(last'.key)].timestamp
                         > disk[safe_key(last'.key)].ttl) =>
                     safe_key(last'.key) \notin DOMAIN disk']_vars

\* a get of tier 1 found an entry past its ttl, reported a miss and removed it
C19_Witness ==
    /\ last.op = "memory.get"
    /\ last.stored
    /\ last.value = None
    /\ last.key \notin DOMAIN memory

\* C20: cleanup() removes exactly the entries whose age exceeds their own TTL
\* at the time of the call, returns the number of entries it removed, and
\* leaves every unexpired entry (key, value, timestamp, ttl) unchanged;
\* immediately after cleanup no expired entry remains in that tier.
C20_CleanupExact ==
    [][last'.op = "cleanup" =>
          /\ DOMAIN memory' =
                 {k \in DOMAIN memory : ~(time - memory[k].timestamp > memory[k].ttl)}
          /\ \A k \in DOMAIN memory' : memory'[k] = memory[k]
          /\ last'.memory = Cardinality(DOMAIN memory) - Cardinality(DOMAIN memory')
          /\ \A k \in DOMAIN memory' : time - memory'[k].timestamp <= memory'[k].ttl
          /\ has_disk =>
                 /\ DOMAIN disk' =
                        {k \in DOMAIN disk : ~(time - disk[k].timestamp > disk[k].ttl)}
                 /\ \A k \in DOMAIN disk' : disk'[k] = disk[k]
                 /\ last'.disk = Cardinality(DOMAIN disk) - Cardinality(DOMAIN disk')
                 /\ \A k \in DOMAIN disk' : time - disk'[k].timestamp <= disk'[k].ttl]_vars

\* a cleanup removed expired entries from both tiers and kept an unexpired one
C20_Witness ==
    /\ last.op = "cleanup"
    /\ last.memory > 0
    /\ last.disk > 0
    /\ memory # EmptyDict

----------------------------------------------------------------------------
(* Claims about MemoryCache under several threads *)

\* C21: MemoryCache is thread-safe: with several threads calling get, set,
\* delete, clear and cleanup on one MemoryCache, every interleaving is
\* equivalent to some sequential order of whole operations (each operation
\* leaves the cache and returns what the whole operation does when applied to
\* the cache as it was when the thread took the lock); in particular a get
\* that observed an expired entry never deletes an entry written by a
\* concurrent set, and no operation fails because another thread removed a key
\* between its check and its deletion.
C21_ThreadSafe ==
    \A th \in Threads :
        /\ threads[th].pc = "release" =>
               /\ threads[th].exc = None
               /\ memory = Sequential(threads[th].op, threads[th].snap, threads[th].key,
                                      threads[th].value, threads[th].t).cache
               /\ threads[th].result =
                      Sequential(threads[th].op, threads[th].snap, threads[th].key,
                                 threads[th].value, threads[th].t).result
        /\ threads[th].pc = "get_del" =>
               /\ threads[th].key \in DOMAIN memory
               /\ memory[threads[th].key] = threads[th].entry
        /\ threads[th].pc = "delete_del" => threads[th].key \in DOMAIN memory
        /\ threads[th].pc = "cleanup_del" => threads[th].pending \subseteq DOMAIN memory

\* a get has found its entry expired and is about to delete it while another
\* thread waits for the lock with a set of the same key
C21_Witness ==
    \E th, other \in Threads :
        /\ threads[th].pc = "get_del"
        /\ threads[other].pc = "acquire"
        /\ threads[other].op = "set"
        /\ threads[other].key = threads[th].key

----------------------------------------------------------------------------
(* Claims about manual links *)

\* C22: add_manual_link returns failure (false) and does not raise when the
\* source chunk does not exist, when the link type is not 'supports' or
\* 'contradicts', or when no store is given; on failure no chunk record and no
\* graph entry is changed.
C22_ManualLinkFailure ==
    [][last'.op = "add_manual_link" =>
          /\ (\/ last'.from_id \notin DOMAIN chunks
              \/ last'.link_type \notin {"supports", "contradicts"}
              \/ ~last'.store_given) => ~last'.ok
          /\ ~last'.ok =>
                 /\ chunks' = chunks
                 /\ index' = index
                 /\ forward' = forward
                 /\ reverse' = reverse]_vars

\* a manual link of a valid type was refused, with a store given that holds
\* chunks, because its source is not one of them
C22_Witness ==
    /\ last.op = "add_manual_link"
    /\ ~last.ok
    /\ last.store_given
    /\ last.link_type \in {"supports", "contradicts"}
    /\ chunks # EmptyDict
    /\ last.from_id \notin DOMAIN chunks

\* C23: a successful add_manual_link(from, to, type) with type in {supports,
\* contradicts} leaves `to` present exactly once in the persisted source
\* chunk's list of that type and the edge from -> to of that type present in
\* the persisted link graph; it changes no other link list of the source and
\* does not modify the target chunk's record; repeating the same call changes
\* nothing further.
C23_ManualLinkSuccess ==
    [][last'.op = "add_manual_link" /\ last'.ok =>
          /\ last'.link_type \in {"supports", "contradicts"}
          /\ Cardinality({i \in 1..Len(chunks'[last'.from_id].links[last'.link_type]) :
                             chunks'[last'.from_id].links[last'.link_type][i] = last'.to_id}) = 1
          /\ index'.exists
          /\ last'.from_id \in DOMAIN index'.forward
          /\ last'.link_type \in DOMAIN index'.forward[last'.from_id]
          /\ Contains(index'.forward[last'.from_id][last'.link_type], last'.to_id)
          /\ \A t \in LinkTypes \ {last'.link_type} :
                 chunks'[last'.from_id].links[t] = chunks[last'.from_id].links[t]
          /\ (last'.to_id \in DOMAIN chunks /\ last'.to_id # last'.from_id) =>
                 chunks'[last'.to_id] = chunks[last'.to_id]
          /\ add_manual_link(chunks', index', last'.from_id, last'.to_id, last'.link_type, TRUE)
                 = [store |-> chunks', index |-> index', ok |-> TRUE]]_vars

\* a manual link was added from a chunk that has automatic links to a chunk
\* of the store
C23_Witness ==
    /\ last.op = "add_manual_link"
    /\ last.ok
    /\ last.to_id \in DOMAIN chunks
    /\ chunks[last.from_id].links.context_of # <<>>
    /\ Contains(chunks[last.from_id].links[last.link_type], last.to_id)

\* C24: link lists are append-only: across any sequence of link_on_create and
\* add_manual_link operations, an id once present in a persisted chunk's
\* context_of, follows, related_to, supports or contradicts list is present in
\* that list in every later state, appears there at most once, and keeps its
\* position relative to ids added earlier.
C24_AppendOnly ==
    [][\A c \in DOMAIN chunks, t \in LinkTypes :
           /\ \A i, j \in 1..Len(chunks'[c].links[t]) :
                  chunks'[c].links[t][i] = chunks'[c].links[t][j] => i = j
           /\ \A i \in 1..Len(chunks[c].links[t]) :
                  Contains(chunks'[c].links[t], chunks[c].links[t][i])
           /\ \A i, j \in 1..Len(chunks[c].links[t]) :
                  i < j =>
                      \E k, l \in 1..Len(chunks'[c].links[t]) :
                          /\ k < l
                          /\ chunks'[c].links[t][k] = chunks[c].links[t][i]
                          /\ chunks'[c].links[t][l] = chunks[c].links[t][j]]_vars

----------------------------------------------------------------------------
(* Claims about recall *)

\* the chunks direct search looks at for a conversation filter
Candidates(conversation_id) ==
    {c \in DOMAIN docs : conversation_id = None \/ docs[c].conversation_id = conversation_id}

\* the content of chunk c contains an expanded term of the query
Matches(c, query) == \E term \in expand_query(query) : IsSubstring(term, Lower(docs[c].content))

\* C25: direct search never raises on an empty result: for any store state
\* (including an empty store) and any non-empty query for which no candidate
\* chunk contains an expanded query term, recall returns a result with
\* confidence 0.0 and empty source_chunks; when candidates exist, source_chunks
\* has at most max_results ids, each of a chunk whose content contains at least
\* one expanded term, and no omitted candidate has a strictly higher score than
\* an included one.
C25_DirectSearch ==
    (last.op = "recall" /\ ~last.has_client /\ ~Blank(last.query)) =>
        /\ last.result.exc = None
        /\ (\A c \in Candidates(last.conversation_id) : ~Matches(c, last.query)) =>
               /\ last.result.confidence.num = 0
               /\ last.result.source_chunks = <<>>
        /\ Len(last.result.source_chunks) <= last.max_results
        /\ \A i \in 1..Len(last.result.source_chunks) :
               /\ last.result.source_chunks[i] \in Candidates(last.conversation_id)
               /\ Matches(last.result.source_chunks[i], last.query)
        /\ \A c \in Candidates(last.conversation_id) :
               ~Contains(last.result.source_chunks, c) =>
                   \A i \in 1..Len(last.result.source_chunks) :
                       Score(docs[c], expand_query(last.query))
                           <= Score(docs[last.result.source_chunks[i]], expand_query(last.query))

\* direct search returned one chunk and left out a matching chunk of a lower score
C25_Witness ==
    /\ last.op = "recall"
    /\ ~last.has_client
    /\ Len(last.result.source_chunks) = 1
    /\ \E c \in Candidates(last.conversation_id) :
           /\ ~Contains(last.result.source_chunks, c)
           /\ Matches(c, last.query)
           /\ Score(docs[c], expand_query(last.query))
                  < Score(docs[last.result.source_chunks[1]], expand_query(last.query))

----------------------------------------------------------------------------
(* Claims about reason *)

\* the chunks reason analyses
EvidenceChunks(has_client, query, context_chunks) ==
    IF context_chunks # None /\ context_chunks # <<>>
    THEN SelectSeq(context_chunks, LAMBDA c : c \in DOMAIN docs)
    ELSE search_evidence(docs, Session, has_client, query).chunks

\* C27: reason never raises for empty evidence and returns a zero-confidence
\* result instead: for every analysis mode (synthesis, comparison, pattern,
\* gap), when the evidence set contains no existing chunk the result has
\* confidence 0.0 and empty source_chunks; in comparison mode fewer than 2
\* evidence chunks yields a confidence-0.0 failure result.
C27_EmptyEvidence ==
    (last.op = "reason" /\ ~Blank(last.query)) =>
        /\ last.result.exc = None
        /\ EvidenceChunks(last.has_client, last.query, last.context_chunks) = <<>> =>
               /\ last.result.confidence.num = 0
               /\ last.result.source_chunks = <<>>
        /\ (/\ last.analysis_type = "comparison"
            /\ Len(EvidenceChunks(last.has_client, last.query, last.context_chunks)) < 2) =>
               last.result.confidence.num = 0

----------------------------------------------------------------------------
(* Claims about the temporal and tag passes (SpecLinker) *)

\* the other chunks of new's conversation created within [created - window, created)
Predecessors(new) ==
    {m \in DOMAIN chunks \ {new} :
        /\ SameConversation(m, new)
        /\ chunks[m].created >= chunks[new].created - TemporalWindow
        /\ chunks[m].created < chunks[new].created}

\* C28: the temporal pass is unidirectional and window-bounded. After
\* link_on_create(new), the returned and the persisted follows list of new hold
\* exactly the other chunks of new's conversation created within
\* [created - window, created), each once and never new itself; no such
\* predecessor m has new in its follows list, and neither the linker's graph nor
\* the index file holds an edge m -> new of type follows.
C28_TemporalUnidirectional ==
    \A new \in DOMAIN chunks :
        held[new].linked =>
            /\ Range(held[new].links.follows) = Predecessors(new)
            /\ Len(held[new].links.follows) = Cardinality(Predecessors(new))
            /\ chunks[new].links.follows = held[new].links.follows
            /\ ~Contains(chunks[new].links.follows, new)
            /\ \A m \in Predecessors(new) :
                   /\ ~Contains(chunks[m].links.follows, new)
                   /\ ~Contains(held[m].links.follows, new)
                   /\ ~Contains(get_outgoing(Graph, m, "follows"), new)
                   /\ ~Contains(get_outgoing(index, m, "follows"), new)

\* a linked chunk follows a chunk of its conversation created within the window,
\* an older chunk of the conversation lies outside the window, and the predecessor
\* has been passed to link_on_create after the new chunk
C28_Witness ==
    \E new \in DOMAIN chunks, m \in DOMAIN chunks, old \in DOMAIN chunks :
        /\ held[new].linked
        /\ held[m].linked
        /\ m \in Predecessors(new)
        /\ old # new
        /\ SameConversation(old, new)
        /\ old \notin Predecessors(new)
        /\ Contains(chunks[new].links.follows, m)

\* the chunks of another conversation that share a tag with new
TagPeers(new) ==
    {m \in DOMAIN chunks :
        /\ ~SameConversation(m, new)
        /\ chunks[m].tags \cap chunks[new].tags # {}}

\* C29: the tag pass is bidirectional. When link_on_create(new) returns, for
\* every existing chunk m of a different conversation that shares at least one
\* tag with new: m is in the returned and the persisted related_to list of new,
\* new is in m's persisted related_to list, and the linker's graph and the index
\* file hold both edges new -> m and m -> new of type related_to.
C29_TagBidirectional ==
    [][\A new \in DOMAIN chunks :
           (~held[new].linked /\ held'[new].linked) =>
               \A m \in TagPeers(new) :
                   /\ Contains(held'[new].links.related_to, m)
                   /\ Contains(chunks'[new].links.related_to, m)
                   /\ Contains(chunks'[m].links.related_to, new)
                   /\ Contains(get_outgoing(Graph', new, "related_to"), m)
                   /\ Contains(get_outgoing(Graph', m, "related_to"), new)
                   /\ Contains(get_outgoing(index', new, "related_to"), m)
                   /\ Contains(get_outgoing(index', m, "related_to"), new)]_vars

\* a linked chunk and an unlinked chunk of another conversation share one of the
\* linked chunk's two tags and list each other in their persisted related_to
C29_Witness ==
    \E new \in DOMAIN chunks, m \in DOMAIN chunks :
        /\ held[new].linked
        /\ ~held[m].linked
        /\ m \in TagPeers(new)
        /\ chunks[new].tags # chunks[m].tags
        /\ Contains(chunks[new].links.related_to, m)
        /\ Contains(chunks[m].links.related_to, new)

----------------------------------------------------------------------------
(* Claims about get_path (SpecGraph) *)

\* a stored forward edge a -> b of a type link_types allows; None and the empty
\* list allow every type
ForwardEdge(a, b, link_types) ==
    /\ a \in DOMAIN forward
    /\ \E lt \in DOMAIN forward[a] :
           /\ Contains(forward[a][lt], b)
           /\ (Falsy(link_types) \/ lt \in link_types.types)

\* p starts with from_id, ends with to_id and follows allowed forward edges
IsForwardPath(p, from_id, to_id, link_types) ==
    /\ Len(p) >= 1
    /\ p[1] = from_id
    /\ p[Len(p)] = to_id
    /\ \A i \in 1..(Len(p) - 1) : ForwardEdge(p[i], p[i + 1], link_types)

\* the forward paths that pass no node twice; a shortest path is one of them
SimplePaths(from_id, to_id, link_types) ==
    {p \in UNION {[1..n -> GraphIds] : n \in 1..Cardinality(GraphIds)} :
        IsForwardPath(p, from_id, to_id, link_types)}

\* C30: get_path(from, to, link_types) returns [from] when from = to. Otherwise
\* it returns a list that starts with from, ends with to, in which each
\* consecutive pair is a stored forward edge of an allowed type, and no such
\* path is shorter; it returns None exactly when no such forward path exists.
\* It returns on every graph, cyclic ones included.
C30_ShortestPath ==
    last.op = "get_path" =>
        LET paths == SimplePaths(last.from_id, last.to_id, last.link_types)
        IN  /\ last.from_id = last.to_id => last.result = <<last.from_id>>
            /\ last.result = None <=> (last.from_id # last.to_id /\ paths = {})
            /\ last.result # None =>
                   /\ IsForwardPath(last.result, last.from_id, last.to_id, last.link_types)
                   /\ \A p \in paths : Len(last.result) <= Len(p)

\* get_path has returned a shortest path of two hops through a graph with a
\* cycle and a self-loop, where a different type filter leaves no path
C30_Witness ==
    /\ last.op = "get_path"
    /\ last.result # None
    /\ Len(last.result) = 3
    /\ ForwardEdge("a", "a", NoFilter)
    /\ ForwardEdge(last.to_id, last.from_id, NoFilter)
    /\ \E lts \in TypeFilters : SimplePaths(last.from_id, last.to_id, lts) = {}

----------------------------------------------------------------------------
(* Claims about traverse with a type filter (SpecGraph) *)

\* nodes within k hops of the nodes of S along stored forward edges of a type
\* link_types allows
RECURSIVE ReachAllowed(_, _, _)
ReachAllowed(S, k, link_types) ==
    IF k = 0 THEN S
    ELSE ReachAllowed(S \cup {n \in GraphIds : \E m \in S : ForwardEdge(m, n, link_types)},
                      k - 1, link_types)

\* C31: traverse with a link_types filter follows an edge current -> target only
\* if target is stored in the forward map of current under one of the given
\* types. The result excludes start, holds each node at most once, and holds
\* exactly the nodes other than start that lie within max_depth such hops of start.
C31_TraverseFilter ==
    last.op = "traverse" =>
        /\ ~Contains(last.result, last.start_id)
        /\ Len(last.result) = Cardinality(Range(last.result))
        /\ Range(last.result) =
               ReachAllowed({last.start_id}, last.max_depth, last.link_types) \ {last.start_id}

\* a traverse with a list of types returned some node, left out a node that lies
\* within max_depth hops by edges of other types, and start lies on a cycle of
\* allowed edges
C31_Witness ==
    /\ last.op = "traverse"
    /\ ~Falsy(last.link_types)
    /\ last.result # <<>>
    /\ \E n \in ReachWithin(Graph, {last.start_id}, last.max_depth) \ {last.start_id} :
           ~Contains(last.result, n)
    /\ \E n \in Range(last.result) : ForwardEdge(n, last.start_id, last.link_types)

----------------------------------------------------------------------------
(* Claims about the namespace of the session (SpecSession) *)

\* the names _setup_namespace puts under __builtins__ for the store, the
\* provider and the final answer
Primitives ==
    {"read_chunk", "search_chunks", "list_chunks_by_tag", "get_linked_chunks",
     "llm_query", "FINAL"}

\* C32: the memory primitives and the terminal and query primitives are not
\* reassignable by sandboxed code. After any sequence of execute calls the names
\* read_chunk, search_chunks, list_chunks_by_tag, get_linked_chunks, llm_query
\* and FINAL resolve to the session's own primitives: no top-level binding of
\* the namespace hides one of them, and no call of one fails as a call of a
\* value that user code bound.
C32_PrimitivesNotReassignable ==
    /\ \A n \in Primitives : n \notin DOMAIN namespace
    /\ (last.op = "execute" /\ last.exc = "TypeError") => last.at # "call"

\* the names of a dictionary that do not start with an underscore
PublicNames(d) == DOMAIN d \ UnderscoreNames

\* the statements of the execute call that has just ended ran to their end: the
\* call returned, or raised TimeoutError after them
RanToEnd(l) == l.statements /\ l.exc \in {None, "TimeoutError"}

\* C33 as stated: every top-level name bound by a statement-mode execute call
\* that returns normally, except names starting with an underscore, is recorded
\* in the session state and readable with the same value in every later execute
\* call until it is rebound or reset() is called; get_state() returns exactly
\* these names.
C33_NamePersistence ==
    [][/\ (last'.op = "execute" /\ last'.statements /\ last'.exc = None) =>
              \A n \in PublicNames(last'.bound) :
                  /\ n \in DOMAIN state' /\ state'[n] = last'.bound[n]
                  /\ n \in DOMAIN namespace' /\ namespace'[n] = last'.bound[n]
       /\ last'.op = "execute" =>
              /\ \A n \in DOMAIN state \ DOMAIN last'.bound :
                     n \in DOMAIN namespace' /\ namespace'[n] = namespace[n]
              /\ DOMAIN state' =
                     DOMAIN state \cup
                         (IF last'.statements /\ last'.exc = None
                          THEN PublicNames(last'.bound) ELSE {})
       /\ last'.op = "reset" => state' = EmptyDict]_vars

\* C33 amended: every top-level name bound by a statement-mode execute call
\* whose statements run to their end, except names starting with an underscore,
\* is recorded in the session state and readable with the same value in every
\* later execute call until it is rebound or reset() is called. The recording is
\* made before the timeout test, so a call that raises TimeoutError after its
\* statements records its names too, and it copies every public name of the
\* namespace: get_state() returns exactly the public names that were bound in
\* the namespace, by any call since the last reset, when a statement-mode call
\* last ran to its end.
C33_NamePersistenceAmended ==
    [][/\ (last'.op = "execute" /\ RanToEnd(last')) =>
              \A n \in PublicNames(last'.bound) :
                  /\ n \in DOMAIN state' /\ state'[n] = last'.bound[n]
                  /\ n \in DOMAIN namespace' /\ namespace'[n] = last'.bound[n]
       /\ last'.op = "execute" =>
              /\ \A n \in DOMAIN state \ DOMAIN last'.bound :
                     n \in DOMAIN namespace' /\ namespace'[n] = namespace[n]
              /\ DOMAIN state' =
                     DOMAIN state \cup
                         (IF RanToEnd(last') THEN PublicNames(namespace') ELSE {})
       /\ last'.op = "reset" => state' = EmptyDict]_vars

\* a call that bound x and _t raised TimeoutError after its statements: x is in
\* the state with its value, _t is in the namespace only
C33_Witness ==
    /\ last.op = "execute"
    /\ last.exc = "TimeoutError"
    /\ last.statements
    /\ DOMAIN last.bound = {"x", "_t"}
    /\ "x" \in DOMAIN state
    /\ state["x"] = last.bound["x"]
    /\ "_t" \notin DOMAIN state
    /\ "_t" \in DOMAIN namespace

----------------------------------------------------------------------------
(* Claims about session-driven recall (SpecRecall) *)

\* the session has been invoked since it was built: some llm_query or some
\* execute call has run
SessionInvoked == iteration_count >= 1 \/ hist.llm_calls >= 1 \/ output # <<>>

\* C34: session-driven recall drives the session loop. With an LLM client
\* configured and no error ending the loop, recall never returns the answer
\* 'No relevant memories found' without at least one session iteration
\* (execute or llm_query) having been performed.
C34_RecallDrivesSession ==
    (/\ last.op = "recall"
     /\ last.has_client
     /\ last.raised = None
     /\ last.result.answer = "No relevant memories found") =>
        /\ SessionInvoked
        /\ last.result.iterations_used >= 1

----------------------------------------------------------------------------
(* Claims about the index file and the chunk records (SpecManual) *)

\* C35: the link graph is derivable from the chunk link lists. After any
\* sequence of link_on_create and add_manual_link operations, for every chunk c
\* and every edge type t, the forward set of c under t in the persisted graph
\* equals the set of ids in c's persisted links list t.
C35_GraphDerivable ==
    \A c \in DOMAIN chunks, t \in LinkTypes :
        Range(get_outgoing(index, c, t)) = Range(chunks[c].links[t])

\* C36: persisted graph edges are never lost. With a long-lived AutoLinker and
\* add_manual_link used in any order on one store, every edge that the index
\* file holds is still in the index file, and so in a LinkGraph newly loaded
\* from it, after every later operation.
C36_EdgesNeverLost ==
    [][\A c \in ChunkIds, t \in LinkTypes :
           /\ Range(get_outgoing(index, c, t)) \subseteq Range(get_outgoing(index', c, t))
           /\ Range(get_incoming(index, c, t)) \subseteq Range(get_incoming(index', c, t))]_vars

----------------------------------------------------------------------------
(* Claims about the lifetime of cached values (SpecLife) *)

\* C37: no stale reads through the cache manager. After CacheManager.set(key, v)
\* returns, every later get(key) that is a hit returns v or a value set for key
\* after v, never a value set for key before v, whatever the ttl and use_disk
\* arguments of the set calls were: a hit returns the value of the last set.
C37_NoStaleRead ==
    (last.op = "get" /\ last.value # None /\ last.key \in DOMAIN writes) =>
        last.value = writes[last.key].value

\* C38: promotion does not extend lifetime. A value stored with
\* CacheManager.set(key, v, ttl = T, use_disk = true) at time t0 and not set
\* again is never returned by CacheManager.get(key) later than t0 + T, also
\* after it has been promoted from tier 2 into tier 1.
C38_PromotionKeepsLifetime ==
    (/\ last.op = "get"
     /\ last.value # None
     /\ last.key \in DOMAIN writes
     /\ writes[last.key].use_disk
     /\ last.value = writes[last.key].value) =>
        time <= writes[last.key].at + writes[last.key].ttl

(* Claims about one manager shared by two threads (SpecShared) *)

\* C39: once delete(key) has returned and no set(key) was issued or running
\* since it was called, tier 1 holds no entry for the key and a get(key)
\* called after the delete returned is a miss, whatever another thread's
\* get was doing while the delete ran.
C39_DeleteIsFinal ==
    \A key \in removed_keys :
        /\ key \notin DOMAIN memory
        /\ (last.op = "get" /\ last.key = key /\ last.after_delete) => last.value = None

(* Claims about the iteration counter of the session (SpecSession) *)

\* C40: in every reachable session state iteration_count is at most
\* max_iterations and equals the number of llm_query calls since the last
\* reset that reached the provider.
C40_IterationCountIsProviderCalls ==
    /\ iteration_count <= max_iterations
    /\ iteration_count = hist.provider_calls

====
